---- MODULE Spec2Model ----
(***************************************************************************)
(* Model of the tenant-locations-matcher core:                             *)
(*   - the multi-provider geocoding orchestrator                           *)
(*     (utils/geocodingUtils/geocoding.ts, providerRegistry.ts and the     *)
(*     provider adapters under utils/geocodingProviders/),                 *)
(*   - address standardization and matching (utils/addressUtils.ts).       *)
(* Strings are sequences of one-character strings.                         *)
(***************************************************************************)
EXTENDS Integers, Sequences, FiniteSets, TLC

VARIABLES
    lastUsedProviderIndex, \* providerRegistry.ts: let lastUsedProviderIndex
    sinceLastRequest,      \* Min(Date.now() - lastRequestTime, MIN_TIME_BETWEEN_REQUESTS), ms
    requestCount,          \* per counted provider: dailyRequestCount / requestCount / monthlyRequestCount
    lastResetDay,          \* per daily provider: let lastResetDay
    today,                 \* new Date().getDate()
    pc,                    \* position of the geocodeAddress call: "idle", "await", "done"
    cur,                   \* provider whose geocodeFunction is awaited
    result,                \* value the last geocodeAddress call returned
    invoked                \* history: providers whose geocodeFunction this call has invoked

geoVars == <<lastUsedProviderIndex, sinceLastRequest, requestCount, lastResetDay,
             today, pc, cur, result, invoked>>

\* matchAddresses
VARIABLES
    addresses1,     \* the source list
    addresses2,     \* the target list
    standardized1,  \* addresses1.map(standardizeAddress)
    standardized2,  \* addresses2.map(standardizeAddress)
    matched2,       \* target indices already matched
    results,        \* the records pushed so far
    sourceOf,       \* history: per record the source index it reports (0: none)
    targetOf,       \* history: per record the target index it reports (0: none)
    mi,             \* the loop variable i (1-based)
    mpc             \* "off", "start", "sources", "done"

matchVars == <<addresses1, addresses2, standardized1, standardized2, matched2,
               results, sourceOf, targetOf, mi, mpc>>

\* standardizeAddress applied once and twice
VARIABLES
    raw,        \* the address given to standardizeAddress
    once,       \* standardizeAddress(raw)
    twice,      \* standardizeAddress(standardizeAddress(raw))
    npc         \* "off", "raw", "once", "twice"

normVars == <<raw, once, twice, npc>>

\* enhancedGeocode(address, businessName)
VARIABLES
    eAddress,       \* the parameter address
    eBusinessName,  \* the parameter businessName (<<>>: not given)
    eHintIndex,     \* position of the loop over businessTypes (1-based)
    eAttempts,      \* history: the strings passed to geocodeAddress, in order
    eOutcomes,      \* history: what each finished geocodeAddress call returned
    eResult,        \* the value enhancedGeocode returned
    epc             \* "off", "call", "plain", "hints", "named", "done"

enhVars == <<eAddress, eBusinessName, eHintIndex, eAttempts, eOutcomes, eResult, epc>>

\* batchGeocodeAddresses(addresses)
VARIABLES
    bAddresses,          \* the parameter addresses
    addressesToProcess,  \* the copy the loop iterates over
    bi,                  \* position of the loop (1-based)
    bResults,            \* own properties of the object results
    bProto,              \* prototype of the object results (Null: Object.prototype)
    successCount,
    failCount,
    toasts,              \* the notifications shown, in order
    bLog,                \* history: <<"start", k>> and <<"return", k>> per call
    bpc                  \* "off", "call", "await", "done"

batchVars == <<bAddresses, addressesToProcess, bi, bResults, bProto, successCount,
               failCount, toasts, bLog, bpc>>

\* a second invocation of geocodeAddress, made while the first may be awaiting
VARIABLES
    pc2,        \* "off", "idle", "await", "done"
    cur2,       \* provider the second invocation awaits (-1: none)
    result2     \* value the second invocation resolved to

overVars == <<pc2, cur2, result2>>

\* geocodeAddressWithNominatim called by itself
VARIABLES
    apc,          \* "off", "idle", "sleep", "fetch"
    timeToWait,   \* the constant timeToWait of the last call
    timer,        \* milliseconds left of the pending setTimeout
    issuedAfter   \* now - lastRequestTime when the last request of a call was issued

nomVars == <<apc, timeToWait, timer, issuedAfter>>

vars == <<geoVars, matchVars, normVars, enhVars, batchVars, overVars, nomVars>>

----------------------------------------------------------------------------
(* Bounds *)

\* scaled-down quota limits (source: 2900, 1000, 2400 per day, 95000 per month)
GeoapifyLimit == 1
MapTilerLimit == 1
GeocodioLimit == 1
MONTHLY_LIMIT == 1
\* days in the modelled month: getDate() cycles through 1..DaysInMonth
DaysInMonth == 2
\* milliseconds that pass in one Tick
TickMs == 750
\* longest source list and longest target list given to matchAddresses
MaxSources == 2
MaxTargets == 2
\* most words of a sampled address given to standardizeAddress
MaxWords == 3
\* longest list given to batchGeocodeAddresses
MaxBatch == 2

----------------------------------------------------------------------------
(* Program constants *)

MIN_TIME_BETWEEN_REQUESTS == 1500

\* a notification is shown every ProgressEvery processed addresses
ProgressEvery == 10

Null == <<>>

Min2(a, b) == IF a <= b THEN a ELSE b
Max2(a, b) == IF a >= b THEN a ELSE b
SetMin(S) == CHOOSE x \in S : \A y \in S : x <= y

----------------------------------------------------------------------------
(* Provider registry *)

Nominatim == 0
Geoapify == 1
MapTiler == 2
Geocodio == 3
Radar == 4

providers == <<Nominatim, Geoapify, MapTiler, Geocodio, Radar>>
N == Len(providers)
ProviderIdx == 0 .. N - 1

Counted == {Geoapify, MapTiler, Geocodio, Radar}
Daily == {Geoapify, MapTiler, Geocodio}

Limit(p) ==
    CASE p = Geoapify -> GeoapifyLimit
      [] p = MapTiler -> MapTilerLimit
      [] p = Geocodio -> GeocodioLimit
      [] p = Radar -> MONTHLY_LIMIT

----------------------------------------------------------------------------
(* Provider adapters *)

\* what the backend answers to one request:
\*   ok             a first result with numeric coordinates
\*   bad_coords     a first result whose coordinate fields hold no numbers
\*   empty          no result
\*   http_error     response.ok is false
\*   network_error  fetch rejects
\*   bad_body       response.json() rejects
Responses == {"ok", "bad_coords", "empty", "http_error", "network_error", "bad_body"}

Coordinates == <<"40.0", "-75.0">>
UndefinedPair == <<"undefined", "undefined">>
\* a rejected promise
Thrown == <<"exception">>

\* checkAndResetDailyCounter: the counter and reset day it leaves behind
CountAfterReset(p) ==
    IF p \in Daily /\ today # lastResetDay[p] THEN 0 ELSE requestCount[p]

DayAfterReset(p) ==
    IF today # lastResetDay[p] THEN today ELSE lastResetDay[p]

\* checkNominatimQuota / checkGeoapifyQuota / checkMapTilerQuota /
\* checkGeocodioQuota / checkRadarQuota: the value returned
checkQuota(p) ==
    IF p = Nominatim
    THEN sinceLastRequest >= MIN_TIME_BETWEEN_REQUESTS
    ELSE CountAfterReset(p) < Limit(p)

\* the outcome of the try block of a provider's geocodeFunction
AdapterBody(p, resp) ==
    CASE resp = "ok" -> Coordinates
      [] resp = "bad_coords" -> IF p = Nominatim THEN Null ELSE UndefinedPair
      [] resp \in {"network_error", "bad_body"} -> Thrown
      [] OTHER -> Null

\* variant: the geocodeFunction has no catch block
AdapterResult_LetsExceptionEscape(p, resp) == AdapterBody(p, resp)

\* how a provider's geocodeFunction settles for a backend response: the
\* catch block turns every exception into null
AdapterResult(p, resp) ==
    IF AdapterBody(p, resp) = Thrown THEN Null ELSE AdapterBody(p, resp)

----------------------------------------------------------------------------
(* Orchestrator: getNextAvailableProvider and geocodeAddress *)

\* variant: the search starts at the provider used last
startIndex_StaysOnCursor == Max2(lastUsedProviderIndex, 0)

startIndex == (lastUsedProviderIndex + 1) % N

\* the provider the do-while loop visits in its iteration k (from 0)
VisitOrder(k) == (startIndex + k) % N

\* positions of the visit order whose provider reports quota
QuotaPositions == {k \in 0 .. N - 1 : checkQuota(VisitOrder(k))}

\* variant: falls back to the start provider when no provider has quota
getNextAvailableProvider_FallsBackToStart ==
    IF QuotaPositions = {} THEN startIndex ELSE VisitOrder(SetMin(QuotaPositions))

\* getNextAvailableProvider: index of the provider returned, -1 for null
getNextAvailableProvider ==
    IF QuotaPositions = {} THEN -1 ELSE VisitOrder(SetMin(QuotaPositions))

\* providers whose checkQuota the loop called
Checked ==
    IF QuotaPositions = {} THEN ProviderIdx
    ELSE {VisitOrder(k) : k \in 0 .. SetMin(QuotaPositions)}

\* geocodeAddress from its entry up to its first suspension: select a
\* provider and run the provider's geocodeFunction up to its fetch, or
\* return null when no provider has quota
Dispatch(inv) ==
    LET p == getNextAvailableProvider
        checked == Checked
    IN
    /\ lastResetDay' = [q \in Daily |->
            IF q \in checked THEN DayAfterReset(q) ELSE lastResetDay[q]]
    /\ requestCount' = [q \in Counted |->
            IF q = p THEN CountAfterReset(q) + 1
            ELSE IF q \in checked THEN CountAfterReset(q)
            ELSE requestCount[q]]
    /\ sinceLastRequest' = IF p = Nominatim THEN 0 ELSE sinceLastRequest
    /\ result' = Null
    /\ IF p = -1
       THEN pc' = "done" /\ cur' = -1 /\ invoked' = inv
       ELSE pc' = "await" /\ cur' = p /\ invoked' = inv \cup {p}

\* a caller invokes geocodeAddress(address)
BeginCall ==
    /\ pc \in {"idle", "done"}
    /\ Dispatch({})
    /\ UNCHANGED <<lastUsedProviderIndex, today>>
    /\ UNCHANGED <<matchVars, normVars, enhVars, batchVars, overVars, nomVars>>

\* variant: a successful request is counted a second time
ProviderSucceeds_CountsAgain ==
    /\ pc = "await"
    /\ \E resp \in Responses :
        /\ AdapterResult(cur, resp) \notin {Null, Thrown}
        /\ lastUsedProviderIndex' = cur
        /\ result' = AdapterResult(cur, resp)
        /\ pc' = "done"
    /\ requestCount' = [q \in Counted |->
            IF q = cur THEN requestCount[q] + 1 ELSE requestCount[q]]
    /\ UNCHANGED <<sinceLastRequest, lastResetDay, today, cur, invoked>>
    /\ UNCHANGED <<matchVars, normVars, enhVars, batchVars, overVars, nomVars>>

\* the awaited provider call settles with coordinates: lines 22-27
ProviderSucceeds ==
    /\ pc = "await"
    /\ \E resp \in Responses :
        /\ AdapterResult(cur, resp) \notin {Null, Thrown}
        /\ lastUsedProviderIndex' = cur
        /\ result' = AdapterResult(cur, resp)
        /\ pc' = "done"
    /\ UNCHANGED <<sinceLastRequest, requestCount, lastResetDay, today, cur,
                   invoked>>
    /\ UNCHANGED <<matchVars, normVars, enhVars, batchVars, overVars, nomVars>>

\* variant: the cursor also advances when the provider failed
ProviderFails_AdvancesCursor ==
    /\ pc = "await"
    /\ \E resp \in Responses : AdapterResult(cur, resp) \in {Null, Thrown}
    /\ Dispatch(invoked)
    /\ lastUsedProviderIndex' = cur
    /\ UNCHANGED today
    /\ UNCHANGED <<matchVars, normVars, enhVars, batchVars, overVars, nomVars>>

\* the awaited provider call settles with null or rejects (lines 28-30):
\* line 33, the recursive call
ProviderFails ==
    /\ pc = "await"
    /\ \E resp \in Responses : AdapterResult(cur, resp) \in {Null, Thrown}
    /\ Dispatch(invoked)
    /\ UNCHANGED <<lastUsedProviderIndex, today>>
    /\ UNCHANGED <<matchVars, normVars, enhVars, batchVars, overVars, nomVars>>

----------------------------------------------------------------------------
(* A second invocation of geocodeAddress that overlaps the first *)

\* geocodeAddress of the second invocation from its entry up to its first
\* suspension: the same module state is read and written
SecondDispatch ==
    LET p == getNextAvailableProvider
        checked == Checked
    IN
    /\ lastResetDay' = [q \in Daily |->
            IF q \in checked THEN DayAfterReset(q) ELSE lastResetDay[q]]
    /\ requestCount' = [q \in Counted |->
            IF q = p THEN CountAfterReset(q) + 1
            ELSE IF q \in checked THEN CountAfterReset(q)
            ELSE requestCount[q]]
    /\ sinceLastRequest' = IF p = Nominatim THEN 0 ELSE sinceLastRequest
    /\ result2' = Null
    /\ IF p = -1
       THEN pc2' = "done" /\ cur2' = -1
       ELSE pc2' = "await" /\ cur2' = p

\* another caller invokes geocodeAddress(address), whatever the first
\* invocation is doing
SecondBeginCall ==
    /\ pc2 \in {"idle", "done"}
    /\ SecondDispatch
    /\ UNCHANGED <<lastUsedProviderIndex, today, pc, cur, result, invoked>>
    /\ UNCHANGED <<matchVars, normVars, enhVars, batchVars, nomVars>>

\* the provider call the second invocation awaits settles with coordinates
SecondSucceeds ==
    /\ pc2 = "await"
    /\ \E resp \in Responses :
        /\ AdapterResult(cur2, resp) \notin {Null, Thrown}
        /\ lastUsedProviderIndex' = cur2
        /\ result2' = AdapterResult(cur2, resp)
        /\ pc2' = "done"
    /\ UNCHANGED <<sinceLastRequest, requestCount, lastResetDay, today, cur2>>
    /\ UNCHANGED <<pc, cur, result, invoked>>
    /\ UNCHANGED <<matchVars, normVars, enhVars, batchVars, nomVars>>

\* the provider call the second invocation awaits settles with null or
\* rejects: the recursive call
SecondFails ==
    /\ pc2 = "await"
    /\ \E resp \in Responses : AdapterResult(cur2, resp) \in {Null, Thrown}
    /\ SecondDispatch
    /\ UNCHANGED <<lastUsedProviderIndex, today, pc, cur, result, invoked>>
    /\ UNCHANGED <<matchVars, normVars, enhVars, batchVars, nomVars>>

----------------------------------------------------------------------------
(* geocodeAddressWithNominatim called by itself, one call at a time *)

\* variant: the request is issued without waiting for the interval
NominatimCall_DoesNotWait ==
    /\ apc = "idle"
    /\ pc \in {"idle", "done"}
    /\ timeToWait' = Max2(0, MIN_TIME_BETWEEN_REQUESTS - sinceLastRequest)
    /\ timer' = 0
    /\ sinceLastRequest' = 0
    /\ issuedAfter' = sinceLastRequest
    /\ apc' = "fetch"
    /\ UNCHANGED <<lastUsedProviderIndex, requestCount, lastResetDay, today,
                   pc, cur, result, invoked>>
    /\ UNCHANGED <<matchVars, normVars, enhVars, batchVars, overVars>>

\* lines 95-113: the call computes timeToWait and suspends on the timer when
\* it is positive; otherwise it sets lastRequestTime and starts the fetch
NominatimCall ==
    /\ apc = "idle"
    /\ pc \in {"idle", "done"}
    /\ timeToWait' = Max2(0, MIN_TIME_BETWEEN_REQUESTS - sinceLastRequest)
    /\ IF timeToWait' > 0
       THEN /\ timer' = timeToWait'
            /\ apc' = "sleep"
            /\ UNCHANGED <<sinceLastRequest, issuedAfter>>
       ELSE /\ timer' = 0
            /\ sinceLastRequest' = 0
            /\ issuedAfter' = sinceLastRequest
            /\ apc' = "fetch"
    /\ UNCHANGED <<lastUsedProviderIndex, requestCount, lastResetDay, today,
                   pc, cur, result, invoked>>
    /\ UNCHANGED <<matchVars, normVars, enhVars, batchVars, overVars>>

\* lines 101-113: the timer has fired; lastRequestTime is set and the fetch
\* starts
NominatimWakes ==
    /\ apc = "sleep"
    /\ timer = 0
    /\ sinceLastRequest' = 0
    /\ issuedAfter' = sinceLastRequest
    /\ apc' = "fetch"
    /\ UNCHANGED <<lastUsedProviderIndex, requestCount, lastResetDay, today,
                   pc, cur, result, invoked>>
    /\ UNCHANGED <<timeToWait, timer>>
    /\ UNCHANGED <<matchVars, normVars, enhVars, batchVars, overVars>>

\* lines 113-145: the fetch settles and the call returns to its caller
NominatimSettles ==
    /\ apc = "fetch"
    /\ \E resp \in Responses : AdapterResult(Nominatim, resp) \in {Null, Coordinates}
    /\ apc' = "idle"
    /\ UNCHANGED geoVars
    /\ UNCHANGED <<timeToWait, timer, issuedAfter>>
    /\ UNCHANGED <<matchVars, normVars, enhVars, batchVars, overVars>>

\* geocodeAddress is invoked while no call of the adapter is pending
SequentialBeginCall ==
    /\ apc = "idle"
    /\ BeginCall

----------------------------------------------------------------------------
(* Environment: the wall clock *)

Tick ==
    /\ sinceLastRequest < MIN_TIME_BETWEEN_REQUESTS \/ timer > 0
    /\ sinceLastRequest' = Min2(sinceLastRequest + TickMs, MIN_TIME_BETWEEN_REQUESTS)
    /\ timer' = Max2(0, timer - TickMs)
    /\ UNCHANGED <<lastUsedProviderIndex, requestCount, lastResetDay, today,
                   pc, cur, result, invoked>>
    /\ UNCHANGED <<apc, timeToWait, issuedAfter>>
    /\ UNCHANGED <<matchVars, normVars, enhVars, batchVars, overVars>>

NextDay ==
    /\ today' = (today % DaysInMonth) + 1
    /\ UNCHANGED <<lastUsedProviderIndex, sinceLastRequest, requestCount,
                   lastResetDay, pc, cur, result, invoked>>
    /\ UNCHANGED <<matchVars, normVars, enhVars, batchVars, overVars, nomVars>>

----------------------------------------------------------------------------
(* Strings: sequences of one-character strings *)

Digits ==
    {"0", "1", "2", "3", "4", "5", "6", "7", "8", "9"}

UpperLetters ==
    {"A", "B", "C", "D", "E", "F", "G", "H", "I", "J", "K", "L", "M", "N",
      "O", "P", "Q", "R", "S", "T", "U", "V", "W", "X", "Y", "Z"}

LowerLetters ==
    {"a", "b", "c", "d", "e", "f", "g", "h", "i", "j", "k", "l", "m", "n",
      "o", "p", "q", "r", "s", "t", "u", "v", "w", "x", "y", "z"}

LowerSeq ==
    <<"a", "b", "c", "d", "e", "f", "g", "h", "i", "j", "k", "l", "m", "n",
      "o", "p", "q", "r", "s", "t", "u", "v", "w", "x", "y", "z">>

UpperSeq ==
    <<"A", "B", "C", "D", "E", "F", "G", "H", "I", "J", "K", "L", "M", "N",
      "O", "P", "Q", "R", "S", "T", "U", "V", "W", "X", "Y", "Z">>

\* \w of a regular expression
WordChars == Digits \cup UpperLetters \cup LowerLetters \cup {"_"}

\* [\w\d-] of the secondary-unit pattern
UnitChars == WordChars \cup {"-"}

Spaces == {" "}

toUpperChar(c) ==
    IF c \in LowerLetters
    THEN UpperSeq[CHOOSE i \in 1 .. Len(LowerSeq) : LowerSeq[i] = c]
    ELSE c

\* String.prototype.toUpperCase
toUpperCase(s) == [i \in 1 .. Len(s) |-> toUpperChar(s[i])]

toLowerChar(c) ==
    IF c \in UpperLetters
    THEN LowerSeq[CHOOSE i \in 1 .. Len(UpperSeq) : UpperSeq[i] = c]
    ELSE c

\* String.prototype.toLowerCase
toLowerCase(s) == [i \in 1 .. Len(s) |-> toLowerChar(s[i])]

IsWordAt(s, i) == i \in 1 .. Len(s) /\ s[i] \in WordChars

\* \b holds in front of position i
WordBoundary(s, i) == IsWordAt(s, i - 1) # IsWordAt(s, i)

\* the literal lit occurs in s at position i
HasAt(s, i, lit) ==
    /\ i + Len(lit) - 1 <= Len(s)
    /\ SubSeq(s, i, i + Len(lit) - 1) = lit

\* String.prototype.includes
includes(s, lit) == \E i \in 1 .. Len(s) + 1 : HasAt(s, i, lit)

\* first position from i on whose character is not in C (Len(s) + 1 if none)
RunEnd(s, i, C) ==
    LET stops == {j \in i .. Len(s) : s[j] \notin C}
    IN IF stops = {} THEN Len(s) + 1 ELSE SetMin(stops)

\* s with the characters at positions a .. e - 1 replaced by rep
ReplaceRange(s, a, e, rep) == SubSeq(s, 1, a - 1) \o rep \o SubSeq(s, e, Len(s))

RECURSIVE Pick(_, _, _)
\* the characters of s from position i on whose keep flag is set
Pick(s, keep, i) ==
    IF i > Len(s) THEN <<>>
    ELSE IF keep[i] THEN <<s[i]>> \o Pick(s, keep, i + 1)
    ELSE Pick(s, keep, i + 1)

\* String.prototype.trim
trim(s) ==
    LET inner == {i \in 1 .. Len(s) : s[i] \notin Spaces}
    IN IF inner = {} THEN <<>>
       ELSE SubSeq(s, SetMin(inner), CHOOSE i \in inner : \A j \in inner : j <= i)

\* replace(/\s+/g, ' ')
CollapseSpaces(s) ==
    Pick(s, [i \in 1 .. Len(s) |-> ~(s[i] \in Spaces /\ i > 1 /\ s[i - 1] \in Spaces)], 1)

\* replace(/\s+/g, '')
StripSpaces(s) == Pick(s, [i \in 1 .. Len(s) |-> s[i] \notin Spaces], 1)

RECURSIVE split(_)
\* String.prototype.split(' ')
split(s) ==
    LET at == {i \in 1 .. Len(s) : s[i] = " "}
    IN IF at = {} THEN <<s>>
       ELSE <<SubSeq(s, 1, SetMin(at) - 1)>> \o split(SubSeq(s, SetMin(at) + 1, Len(s)))

RECURSIVE join(_)
\* Array.prototype.join(' ')
join(ws) ==
    IF Len(ws) = 0 THEN <<>>
    ELSE IF Len(ws) = 1 THEN ws[1]
    ELSE ws[1] \o <<" ">> \o join(Tail(ws))

----------------------------------------------------------------------------
(* addressUtils: tables *)

\* pairs <<word, abbreviation>>
addressSuffixes ==
    <<<<<<"S", "T", "R", "E", "E", "T">>, <<"S", "T">>>>,
      <<<<"A", "V", "E", "N", "U", "E">>, <<"A", "V", "E">>>>,
      <<<<"B", "O", "U", "L", "E", "V", "A", "R", "D">>, <<"B", "L", "V", "D">>>>,
      <<<<"D", "R", "I", "V", "E">>, <<"D", "R">>>>,
      <<<<"R", "O", "A", "D">>, <<"R", "D">>>>,
      <<<<"L", "A", "N", "E">>, <<"L", "N">>>>,
      <<<<"P", "L", "A", "C", "E">>, <<"P", "L">>>>,
      <<<<"C", "O", "U", "R", "T">>, <<"C", "T">>>>,
      <<<<"C", "I", "R", "C", "L", "E">>, <<"C", "I", "R">>>>,
      <<<<"H", "I", "G", "H", "W", "A", "Y">>, <<"H", "W", "Y">>>>,
      <<<<"P", "A", "R", "K", "W", "A", "Y">>, <<"P", "K", "W", "Y">>>>,
      <<<<"E", "X", "P", "R", "E", "S", "S", "W", "A", "Y">>, <<"E", "X", "P", "Y">>>>,
      <<<<"F", "R", "E", "E", "W", "A", "Y">>, <<"F", "W", "Y">>>>,
      <<<<"T", "U", "R", "N", "P", "I", "K", "E">>, <<"T", "P", "K", "E">>>>,
      <<<<"S", "U", "I", "T", "E">>, <<"S", "T", "E">>>>,
      <<<<"A", "P", "A", "R", "T", "M", "E", "N", "T">>, <<"A", "P", "T">>>>,
      <<<<"B", "U", "I", "L", "D", "I", "N", "G">>, <<"B", "L", "D", "G">>>>,
      <<<<"F", "L", "O", "O", "R">>, <<"F", "L">>>>,
      <<<<"U", "N", "I", "T">>, <<"U", "N", "I", "T">>>>,
      <<<<"R", "O", "O", "M">>, <<"R", "M">>>>>>

directions ==
    <<<<<<"N", "O", "R", "T", "H">>, <<"N">>>>,
      <<<<"S", "O", "U", "T", "H">>, <<"S">>>>,
      <<<<"E", "A", "S", "T">>, <<"E">>>>,
      <<<<"W", "E", "S", "T">>, <<"W">>>>,
      <<<<"N", "O", "R", "T", "H", "E", "A", "S", "T">>, <<"N", "E">>>>,
      <<<<"N", "O", "R", "T", "H", "W", "E", "S", "T">>, <<"N", "W">>>>,
      <<<<"S", "O", "U", "T", "H", "E", "A", "S", "T">>, <<"S", "E">>>>,
      <<<<"S", "O", "U", "T", "H", "W", "E", "S", "T">>, <<"S", "W">>>>>>

\* pairs <<abbreviation, variations>>, in the order of the object's keys
streetTypeVariations ==
    <<<<<<"S", "T">>, {<<"S", "T", "R", "E", "E", "T">>, <<"S", "T", "R">>, <<"S", "T", ".">>}>>,
      <<<<"A", "V", "E">>, {<<"A", "V", "E", "N", "U", "E">>, <<"A", "V">>, <<"A", "V", "E", ".">>, <<"A", "V", ".">>}>>,
      <<<<"B", "L", "V", "D">>, {<<"B", "O", "U", "L", "E", "V", "A", "R", "D">>, <<"B", "L", "V", "D", ".">>, <<"B", "L", "V">>, <<"B", "L">>, <<"B", "L", "V", ".">>}>>,
      <<<<"D", "R">>, {<<"D", "R", "I", "V", "E">>, <<"D", "R", ".">>, <<"D", "R", "V">>, <<"D", "R", "V", ".">>}>>,
      <<<<"R", "D">>, {<<"R", "O", "A", "D">>, <<"R", "D", ".">>, <<"R", ".", "D", ".">>}>>,
      <<<<"L", "N">>, {<<"L", "A", "N", "E">>, <<"L", "N", ".">>, <<"L", "A">>, <<"L", "A", ".">>}>>,
      <<<<"H", "W", "Y">>, {<<"H", "I", "G", "H", "W", "A", "Y">>, <<"H", "I", "W", "A", "Y">>, <<"H", "I", "G", "H", "W", "Y">>, <<"H", "W", "Y", ".">>, <<"H", "Y">>, <<"H", ".", "W", ".", "Y", ".">>, <<"U", "S", " ", "H", "I", "G", "H", "W", "A", "Y">>, <<"U", "S", " ", "H", "W", "Y">>, <<"U", ".", "S", ".", " ", "H", "I", "G", "H", "W", "A", "Y">>, <<"U", ".", "S", ".", " ", "H", "W", "Y">>, <<"U", ".", "S", ".", "H", "W", "Y">>}>>,
      <<<<"P", "K", "W", "Y">>, {<<"P", "A", "R", "K", "W", "A", "Y">>, <<"P", "K", "W", "Y", ".">>, <<"P", "K", "Y">>, <<"P", "A", "R", "K", "W", "Y">>, <<"P", "K", "W", "A", "Y">>, <<"P", "K", "W">>, <<"P", "K", "W", ".">>}>>>>

Lookup(table, w) ==
    LET hits == {n \in 1 .. Len(table) : table[n][1] = w}
    IN IF hits = {} THEN <<>> ELSE table[SetMin(hits)][2]

InTable(table, w) == \E n \in 1 .. Len(table) : table[n][1] = w

\* Normalize a street type to its standard abbreviation
normalizeStreetType(streetType) ==
    LET upperStreetType == toUpperCase(streetType)
        hits == {n \in 1 .. Len(streetTypeVariations) :
                    upperStreetType \in streetTypeVariations[n][2]}
    IN IF InTable(addressSuffixes, upperStreetType)
       THEN Lookup(addressSuffixes, upperStreetType)
       ELSE IF hits # {} THEN streetTypeVariations[SetMin(hits)][1]
       ELSE streetType

----------------------------------------------------------------------------
(* addressUtils: regular expressions *)

\* (STE|SUITE|UNIT|APT|#|APARTMENT|ROOM|RM|BUILDING|BLDG|FLOOR|FL), in order
UnitWords ==
    <<<<"S", "T", "E">>, <<"S", "U", "I", "T", "E">>, <<"U", "N", "I", "T">>,
      <<"A", "P", "T">>, <<"#">>,
      <<"A", "P", "A", "R", "T", "M", "E", "N", "T">>, <<"R", "O", "O", "M">>,
      <<"R", "M">>, <<"B", "U", "I", "L", "D", "I", "N", "G">>,
      <<"B", "L", "D", "G">>, <<"F", "L", "O", "O", "R">>, <<"F", "L">>>>

\* the match of  word \s* [#]? [\w\d-]+ ,?  at position i: its end, or 0
UnitEndWith(s, i, w) ==
    IF ~HasAt(s, i, w) THEN 0
    ELSE LET j == RunEnd(s, i + Len(w), Spaces)
             k == IF j <= Len(s) /\ s[j] = "#" THEN j + 1 ELSE j
             e == RunEnd(s, k, UnitChars)
         IN IF e = k THEN 0
            ELSE IF e <= Len(s) /\ s[e] = "," THEN e + 1 ELSE e

\* the match of the secondary-unit pattern at position i: the first
\* alternative that matches decides
UnitEnd(s, i) ==
    LET ok == {n \in 1 .. Len(UnitWords) : UnitEndWith(s, i, UnitWords[n]) # 0}
    IN IF ok = {} THEN 0 ELSE UnitEndWith(s, i, UnitWords[SetMin(ok)])

\* Remove common non-address parts: the first match is removed
removeSecondaryUnits(address) ==
    LET starts == {i \in 1 .. Len(address) : UnitEnd(address, i) # 0}
    IN IF starts = {} THEN trim(address)
       ELSE trim(ReplaceRange(address, SetMin(starts),
                              UnitEnd(address, SetMin(starts)), <<>>))

\* (US|U\.S\.|U S|U\.S|US\.)
UsWords ==
    {<<"U", "S">>, <<"U", ".", "S", ".">>, <<"U", " ", "S">>,
      <<"U", ".", "S">>, <<"U", "S", ".">>}

\* (HWY|HIGHWAY|HWY\.|HIGHWAY\.)
HwyWords ==
    {<<"H", "W", "Y">>, <<"H", "I", "G", "H", "W", "A", "Y">>,
      <<"H", "W", "Y", ".">>, <<"H", "I", "G", "H", "W", "A", "Y", ".">>}

\* (STATE|ST|ST\.|S\.)
StateWords ==
    {<<"S", "T", "A", "T", "E">>, <<"S", "T">>, <<"S", "T", ".">>,
      <<"S", ".">>}

\* (RTE|ROUTE|RT|RD|ROAD|HWY|HIGHWAY)
RouteWords ==
    {<<"R", "T", "E">>, <<"R", "O", "U", "T", "E">>, <<"R", "T">>,
      <<"R", "D">>, <<"R", "O", "A", "D">>, <<"H", "W", "Y">>,
      <<"H", "I", "G", "H", "W", "A", "Y">>}

OldWords == {<<"O", "L", "D">>}

RECURSIVE AfterWords(_, _, _)
\* positions reached from the positions P by matching, for each set of
\* alternatives in parts, one alternative followed by \s*
AfterWords(s, P, parts) ==
    IF parts = <<>> THEN P
    ELSE AfterWords(s,
            {RunEnd(s, pa[1] + Len(pa[2]), Spaces) :
                pa \in {qa \in P \X Head(parts) : HasAt(s, qa[1], qa[2])}},
            Tail(parts))

\* matches of  \b parts \s* (\d+) \b  at position i, as <<start of the
\* digits, end of the match>>
NumberedMatches(s, i, parts) ==
    IF ~WordBoundary(s, i) THEN {}
    ELSE {<<k, RunEnd(s, k, Digits)>> :
            k \in {q \in AfterWords(s, {i}, parts) :
                    /\ RunEnd(s, q, Digits) > q
                    /\ WordBoundary(s, RunEnd(s, q, Digits))}}

\* replace(/\b parts \s*(\d+)\b/i, prefix + digits): the first match
ReplaceNumbered(s, parts, prefix) ==
    LET starts == {i \in 1 .. Len(s) : NumberedMatches(s, i, parts) # {}}
    IN IF starts = {} THEN s
       ELSE LET a == SetMin(starts)
                m == CHOOSE x \in NumberedMatches(s, a, parts) : TRUE
            IN ReplaceRange(s, a, m[2], prefix \o SubSeq(s, m[1], m[2] - 1))

\* Handle special cases for highways
processHighways(address) ==
    LET r1 == ReplaceNumbered(address, <<UsWords, HwyWords>>, <<"U", "S", " ", "H", "W", "Y", " ">>)
        r2 == ReplaceNumbered(r1, <<OldWords, UsWords, HwyWords>>, <<"O", "L", "D", " ", "U", "S", " ", "H", "W", "Y", " ">>)
    IN ReplaceNumbered(r2, <<StateWords, RouteWords>>, <<"S", "T", "A", "T", "E", " ", "H", "W", "Y", " ">>)

AllDigits(s, a, e) == e <= Len(s) /\ \A i \in a .. e : s[i] \in Digits

\* the match of \b\d{5}(-\d{4})?\b at position i: its end, or 0
ZipEnd(s, i) ==
    IF ~(WordBoundary(s, i) /\ AllDigits(s, i, i + 4)) THEN 0
    ELSE IF /\ i + 5 <= Len(s)
            /\ s[i + 5] = "-"
            /\ AllDigits(s, i + 6, i + 9)
            /\ WordBoundary(s, i + 10)
         THEN i + 10
         ELSE IF WordBoundary(s, i + 5) THEN i + 5 ELSE 0

\* replace(/\b\d{5}(-\d{4})?\b/, ''): the first match is removed
RemoveZip(s) ==
    LET starts == {i \in 1 .. Len(s) : ZipEnd(s, i) # 0}
    IN IF starts = {} THEN s
       ELSE ReplaceRange(s, SetMin(starts), ZipEnd(s, SetMin(starts)), <<>>)

\* replace(/\.$/, '')
RemoveTrailingPeriod(s) ==
    IF Len(s) > 0 /\ s[Len(s)] = "." THEN SubSeq(s, 1, Len(s) - 1) ELSE s

\* replace(/,+$/, '')
RemoveTrailingCommas(s) ==
    LET keep == {i \in 1 .. Len(s) : s[i] # ","}
    IN IF keep = {} THEN <<>>
       ELSE SubSeq(s, 1, CHOOSE i \in keep : \A j \in keep : j <= i)

\* replace(/[,.#]/g, ' ')
BlankPunctuation(s) ==
    [i \in 1 .. Len(s) |-> IF s[i] \in {",", ".", "#"} THEN " " ELSE s[i]]

\* lines 361-374: the token-wise rewrite of one word
RewriteWord(w) ==
    LET t == normalizeStreetType(w)
    IN IF InTable(directions, t) THEN Lookup(directions, t) ELSE t

\* lines 361-375: parts.map(...)
RewriteWords(parts) == [i \in 1 .. Len(parts) |-> RewriteWord(parts[i])]

\* Standardize address format with enhanced processing
standardizeAddress(address) ==
    IF address = <<>> THEN <<>>
    ELSE LET s1 == RemoveTrailingPeriod(toUpperCase(address))
             s2 == processHighways(s1)
             s3 == RemoveZip(s2)
             s4 == RemoveTrailingCommas(s3)
             s5 == CollapseSpaces(s4)
             s6 == removeSecondaryUnits(s5)
             s7 == join(RewriteWords(split(s6)))
             s8 == trim(BlankPunctuation(s7))
         IN trim(CollapseSpaces(s8))

----------------------------------------------------------------------------
(* addressUtils: similarity *)

\* stringSimilarity.compareTwoStrings: Dice's coefficient over character
\* bigrams, as the fraction <<numerator, denominator>>
compareTwoStrings(first, second) ==
    LET a == StripSpaces(first)
        b == StripSpaces(second)
        A2 == [i \in 1 .. Len(a) - 1 |-> <<a[i], a[i + 1]>>]
        B2 == [i \in 1 .. Len(b) - 1 |-> <<b[i], b[i + 1]>>]
        \* the i-th bigram of b counts while a still holds an unused equal one
        intersectionSize == Cardinality({i \in 1 .. Len(B2) :
            Cardinality({j \in 1 .. i : B2[j] = B2[i]})
                <= Cardinality({j \in 1 .. Len(A2) : A2[j] = B2[i]})})
    IN IF a = b THEN <<1, 1>>
       ELSE IF Len(a) < 2 \/ Len(b) < 2 THEN <<0, 1>>
       ELSE <<2 * intersectionSize, Len(a) + Len(b) - 2>>

\* lines 395-405: the score componentMatchRatio * 0.7 + basicSimilarity * 0.3
\* as an exact fraction <<numerator, denominator>>
WeightedScore(basicSimilarity, components1, components2) ==
    LET matches == Cardinality({i \in 1 .. Len(components1) :
                        \E j \in 1 .. Len(components2) : components2[j] = components1[i]})
        longest == Max2(Len(components1), Len(components2))
    IN <<7 * matches * basicSimilarity[2] + 3 * basicSimilarity[1] * longest,
         10 * longest * basicSimilarity[2]>>

\* lines 391-405, on the two standardized strings
StandardizedSimilarity(std1, std2) ==
    WeightedScore(compareTwoStrings(std1, std2), split(std1), split(std2))

\* Enhanced address similarity with component weighting
calculateAddressSimilarity(address1, address2) ==
    StandardizedSimilarity(standardizeAddress(address1), standardizeAddress(address2))

\* comparisons of scores
ScoreGreater(x, y) == x[1] * y[2] > y[1] * x[2]
ScoreIsOne(x) == x[1] = x[2]
ScoreAtLeastThreshold(x) == 10 * x[1] >= 7 * x[2]
ScoreIsZero(x) == x[1] = 0
Zero == <<0, 1>>
One == <<1, 1>>

----------------------------------------------------------------------------
(* addressUtils: matchAddresses *)


\* line 462: the similarity of the source to every target not yet matched
\* (matched targets are skipped by line 460)
TargetScores(src) ==
    [j \in 1 .. Len(standardized2) |->
        IF j \in matched2 THEN Zero
        ELSE calculateAddressSimilarity(src, standardized2[j])]

RECURSIVE ScanTargets_LastWins(_, _, _, _)
\* variant: a later target of equal score replaces the best match
ScanTargets_LastWins(scores, j, bestMatchIndex, bestScore) ==
    IF j > Len(scores) THEN <<bestMatchIndex, bestScore>>
    ELSE IF j \notin matched2 /\ ~ScoreGreater(bestScore, scores[j])
         THEN ScanTargets_LastWins(scores, j + 1, j, scores[j])
         ELSE ScanTargets_LastWins(scores, j + 1, bestMatchIndex, bestScore)

RECURSIVE ScanTargets(_, _, _, _)
\* lines 459-468: the fuzzy scan from target j on; <<bestMatchIndex, bestScore>>
ScanTargets(scores, j, bestMatchIndex, bestScore) ==
    IF j > Len(scores) THEN <<bestMatchIndex, bestScore>>
    ELSE IF j \notin matched2 /\ ScoreGreater(scores[j], bestScore)
         THEN ScanTargets(scores, j + 1, j, scores[j])
         ELSE ScanTargets(scores, j + 1, bestMatchIndex, bestScore)

\* variant: the search for an equal standardized target skips matched targets
BestMatch_SkipsMatchedTargets(i) ==
    LET exact == {j \in 1 .. Len(standardized2) :
                    j \notin matched2 /\ standardized2[j] = standardized1[i]}
    IN IF exact # {} THEN <<SetMin(exact), One>>
       ELSE ScanTargets(TargetScores(standardized1[i]), 1, 0, Zero)

RECURSIVE ScanAllTargets(_, _, _, _)
\* a scan that does not skip matched targets
ScanAllTargets(src, j, bestMatchIndex, bestScore) ==
    IF j > Len(standardized2) THEN <<bestMatchIndex, bestScore>>
    ELSE IF ScoreGreater(calculateAddressSimilarity(src, standardized2[j]), bestScore)
         THEN ScanAllTargets(src, j + 1, j,
                             calculateAddressSimilarity(src, standardized2[j]))
         ELSE ScanAllTargets(src, j + 1, bestMatchIndex, bestScore)

\* variant: the fuzzy scan considers matched targets too
BestMatch_ScansMatchedTargets(i) ==
    LET exact == {j \in 1 .. Len(standardized2) : standardized2[j] = standardized1[i]}
    IN IF exact # {} THEN <<SetMin(exact), One>>
       ELSE ScanAllTargets(standardized1[i], 1, 0, Zero)

\* variant: among the equal standardized targets an unmatched one is preferred
BestMatch_PrefersUnmatched(i) ==
    LET exact == {j \in 1 .. Len(standardized2) : standardized2[j] = standardized1[i]}
        free == exact \ matched2
    IN IF free # {} THEN <<SetMin(free), One>>
       ELSE IF exact # {} THEN <<SetMin(exact), One>>
       ELSE ScanTargets(TargetScores(standardized1[i]), 1, 0, Zero)

\* lines 448-469: <<bestMatchIndex, bestScore>> for source i (0: no index)
BestMatch(i) ==
    LET exact == {j \in 1 .. Len(standardized2) : standardized2[j] = standardized1[i]}
    IN IF exact # {} THEN <<SetMin(exact), One>>
       ELSE ScanTargets(TargetScores(standardized1[i]), 1, 0, Zero)

\* lines 471-483
MatchTypeOf(bestScore) ==
    IF ScoreIsOne(bestScore) THEN "exact"
    ELSE IF ScoreAtLeastThreshold(bestScore) THEN "fuzzy"
    ELSE "missing"

\* lines 439-444
StartMatch ==
    /\ mpc = "start"
    /\ standardized1' = [i \in 1 .. Len(addresses1) |-> standardizeAddress(addresses1[i])]
    /\ standardized2' = [j \in 1 .. Len(addresses2) |-> standardizeAddress(addresses2[j])]
    /\ matched2' = {}
    /\ results' = <<>>
    /\ sourceOf' = <<>>
    /\ targetOf' = <<>>
    /\ mi' = 1
    /\ mpc' = "sources"
    /\ UNCHANGED <<addresses1, addresses2>>
    /\ UNCHANGED <<geoVars, normVars, enhVars, batchVars, overVars, nomVars>>

\* variant: a source without a match gets no record
PushResult_SkipsMissing(bestMatchIndex, bestScore, matchType) ==
    /\ matched2' = IF matchType # "missing" THEN matched2 \cup {bestMatchIndex}
                   ELSE matched2
    /\ results' = IF matchType = "missing" THEN results
                  ELSE Append(results,
                        [address1 |-> addresses1[mi],
                         address2 |-> addresses2[bestMatchIndex],
                         score |-> bestScore,
                         matchType |-> matchType])
    /\ sourceOf' = IF matchType = "missing" THEN sourceOf ELSE Append(sourceOf, mi)
    /\ targetOf' = IF matchType = "missing" THEN targetOf
                   ELSE Append(targetOf, bestMatchIndex)

\* lines 471-490: classify the best match and push the record
PushResult(bestMatchIndex, bestScore, matchType) ==
    /\ matched2' = IF matchType # "missing" THEN matched2 \cup {bestMatchIndex}
                   ELSE matched2
    /\ results' = Append(results,
            [address1 |-> addresses1[mi],
             address2 |-> IF matchType # "missing" THEN addresses2[bestMatchIndex]
                          ELSE <<>>,
             score |-> bestScore,
             matchType |-> matchType])
    /\ sourceOf' = Append(sourceOf, mi)
    /\ targetOf' = Append(targetOf, IF matchType # "missing" THEN bestMatchIndex ELSE 0)

\* lines 447-491: one iteration of the loop over the source addresses
MatchSource ==
    /\ mpc = "sources"
    /\ mi <= Len(addresses1)
    /\ \E best \in {BestMatch(mi)} : PushResult(best[1], best[2], MatchTypeOf(best[2]))
    /\ mi' = mi + 1
    /\ UNCHANGED <<addresses1, addresses2, standardized1, standardized2, mpc>>
    /\ UNCHANGED <<geoVars, normVars, enhVars, batchVars, overVars, nomVars>>

RECURSIVE Unmatched(_)
\* lines 493-503: the records of the targets from j on that were not matched
Unmatched(j) ==
    IF j > Len(addresses2) THEN <<>>
    ELSE IF j \in matched2 THEN Unmatched(j + 1)
    ELSE <<[address1 |-> <<>>, address2 |-> addresses2[j], score |-> Zero,
            matchType |-> "missing"]>> \o Unmatched(j + 1)

RECURSIVE UnmatchedIndices(_)
UnmatchedIndices(j) ==
    IF j > Len(addresses2) THEN <<>>
    ELSE IF j \in matched2 THEN UnmatchedIndices(j + 1)
    ELSE <<j>> \o UnmatchedIndices(j + 1)

\* variant: a record is added for every target, matched or not
AddUnmatched_KeepsMatchedTargets ==
    /\ mpc = "sources"
    /\ mi > Len(addresses1)
    /\ results' = results \o [j \in 1 .. Len(addresses2) |->
            [address1 |-> <<>>, address2 |-> addresses2[j], score |-> Zero,
             matchType |-> "missing"]]
    /\ sourceOf' = sourceOf \o [j \in 1 .. Len(addresses2) |-> 0]
    /\ targetOf' = targetOf \o [j \in 1 .. Len(addresses2) |-> j]
    /\ mpc' = "done"
    /\ UNCHANGED <<addresses1, addresses2, standardized1, standardized2, matched2, mi>>
    /\ UNCHANGED <<geoVars, normVars, enhVars, batchVars, overVars, nomVars>>

\* lines 493-505: add the unmatched targets and return
AddUnmatched ==
    /\ mpc = "sources"
    /\ mi > Len(addresses1)
    /\ results' = results \o Unmatched(1)
    /\ sourceOf' = sourceOf \o [k \in 1 .. Len(UnmatchedIndices(1)) |-> 0]
    /\ targetOf' = targetOf \o UnmatchedIndices(1)
    /\ mpc' = "done"
    /\ UNCHANGED <<addresses1, addresses2, standardized1, standardized2, matched2, mi>>
    /\ UNCHANGED <<geoVars, normVars, enhVars, batchVars, overVars, nomVars>>

----------------------------------------------------------------------------
(* standardizeAddress applied once and twice *)


Standardize ==
    /\ npc = "raw"
    /\ once' = standardizeAddress(raw)
    /\ npc' = "once"
    /\ UNCHANGED <<raw, twice>>
    /\ UNCHANGED <<geoVars, matchVars, enhVars, batchVars, overVars, nomVars>>

StandardizeAgain ==
    /\ npc = "once"
    /\ twice' = standardizeAddress(once)
    /\ npc' = "twice"
    /\ UNCHANGED <<raw, once>>
    /\ UNCHANGED <<geoVars, matchVars, enhVars, batchVars, overVars, nomVars>>

----------------------------------------------------------------------------
(* businessTypes: getBusinessTypeHints *)

\* BUSINESS_TYPES in the order of Object.entries: <<key, hints>>
BUSINESS_TYPES ==
    <<
      <<<<"p", "e", "t", "s", "m", "a", "r", "t">>,
        <<<<"p", "e", "t", " ", "s", "t", "o", "r", "e">>,
          <<"p", "e", "t", " ", "s", "h", "o", "p">>,
          <<"p", "e", "t", " ", "s", "u", "p", "p", "l", "y">>>>>>,
      <<<<"p", "e", "t", "c", "o">>,
        <<<<"p", "e", "t", " ", "s", "t", "o", "r", "e">>,
          <<"p", "e", "t", " ", "s", "h", "o", "p">>,
          <<"p", "e", "t", " ", "s", "u", "p", "p", "l", "y">>>>>>,
      <<<<"w", "a", "l", "m", "a", "r", "t">>,
        <<<<"s", "u", "p", "e", "r", "m", "a", "r", "k", "e", "t">>,
          <<"d", "e", "p", "a", "r", "t", "m", "e", "n", "t", " ", "s", "t", "o", "r", "e">>,
          <<"w", "a", "l", "m", "a", "r", "t">>>>>>,
      <<<<"t", "a", "r", "g", "e", "t">>,
        <<<<"d", "e", "p", "a", "r", "t", "m", "e", "n", "t", " ", "s", "t", "o", "r", "e">>,
          <<"t", "a", "r", "g", "e", "t">>,
          <<"r", "e", "t", "a", "i", "l">>>>>>,
      <<<<"c", "o", "s", "t", "c", "o">>,
        <<<<"w", "h", "o", "l", "e", "s", "a", "l", "e">>,
          <<"s", "u", "p", "e", "r", "m", "a", "r", "k", "e", "t">>,
          <<"c", "o", "s", "t", "c", "o">>>>>>,
      <<<<"h", "o", "m", "e", " ", "d", "e", "p", "o", "t">>,
        <<<<"h", "a", "r", "d", "w", "a", "r", "e", " ", "s", "t", "o", "r", "e">>,
          <<"h", "o", "m", "e", " ", "i", "m", "p", "r", "o", "v", "e", "m", "e", "n", "t">>>>>>,
      <<<<"l", "o", "w", "e", "s">>,
        <<<<"h", "a", "r", "d", "w", "a", "r", "e", " ", "s", "t", "o", "r", "e">>,
          <<"h", "o", "m", "e", " ", "i", "m", "p", "r", "o", "v", "e", "m", "e", "n", "t">>>>>>,
      <<<<"b", "e", "s", "t", " ", "b", "u", "y">>,
        <<<<"e", "l", "e", "c", "t", "r", "o", "n", "i", "c", "s", " ", "s", "t", "o", "r", "e">>,
          <<"t", "e", "c", "h", "n", "o", "l", "o", "g", "y">>>>>>,
      <<<<"a", "p", "p", "l", "e", " ", "s", "t", "o", "r", "e">>,
        <<<<"e", "l", "e", "c", "t", "r", "o", "n", "i", "c", "s", " ", "s", "t", "o", "r", "e">>,
          <<"t", "e", "c", "h", "n", "o", "l", "o", "g", "y">>>>>>,
      <<<<"i", "k", "e", "a">>,
        <<<<"f", "u", "r", "n", "i", "t", "u", "r", "e", " ", "s", "t", "o", "r", "e">>,
          <<"h", "o", "m", "e", " ", "f", "u", "r", "n", "i", "s", "h", "i", "n", "g", "s">>>>>>,
      <<<<"m", "c", "d", "o", "n", "a", "l", "d", "s">>,
        <<<<"r", "e", "s", "t", "a", "u", "r", "a", "n", "t">>,
          <<"f", "a", "s", "t", " ", "f", "o", "o", "d">>,
          <<"b", "u", "r", "g", "e", "r">>>>>>,
      <<<<"b", "u", "r", "g", "e", "r", " ", "k", "i", "n", "g">>,
        <<<<"r", "e", "s", "t", "a", "u", "r", "a", "n", "t">>,
          <<"f", "a", "s", "t", " ", "f", "o", "o", "d">>,
          <<"b", "u", "r", "g", "e", "r">>>>>>,
      <<<<"w", "e", "n", "d", "y", "s">>,
        <<<<"r", "e", "s", "t", "a", "u", "r", "a", "n", "t">>,
          <<"f", "a", "s", "t", " ", "f", "o", "o", "d">>,
          <<"b", "u", "r", "g", "e", "r">>>>>>,
      <<<<"t", "a", "c", "o", " ", "b", "e", "l", "l">>,
        <<<<"r", "e", "s", "t", "a", "u", "r", "a", "n", "t">>,
          <<"f", "a", "s", "t", " ", "f", "o", "o", "d">>,
          <<"m", "e", "x", "i", "c", "a", "n">>>>>>,
      <<<<"c", "h", "i", "p", "o", "t", "l", "e">>,
        <<<<"r", "e", "s", "t", "a", "u", "r", "a", "n", "t">>,
          <<"m", "e", "x", "i", "c", "a", "n">>,
          <<"f", "a", "s", "t", " ", "c", "a", "s", "u", "a", "l">>>>>>,
      <<<<"s", "t", "a", "r", "b", "u", "c", "k", "s">>,
        <<<<"c", "a", "f", "e">>,
          <<"c", "o", "f", "f", "e", "e", " ", "s", "h", "o", "p">>,
          <<"c", "o", "f", "f", "e", "e", "h", "o", "u", "s", "e">>>>>>,
      <<<<"s", "u", "b", "w", "a", "y">>,
        <<<<"r", "e", "s", "t", "a", "u", "r", "a", "n", "t">>,
          <<"s", "a", "n", "d", "w", "i", "c", "h", " ", "s", "h", "o", "p">>,
          <<"f", "a", "s", "t", " ", "f", "o", "o", "d">>>>>>,
      <<<<"s", "h", "e", "l", "l">>,
        <<<<"g", "a", "s", " ", "s", "t", "a", "t", "i", "o", "n">>,
          <<"f", "u", "e", "l">>,
          <<"s", "e", "r", "v", "i", "c", "e", " ", "s", "t", "a", "t", "i", "o", "n">>>>>>,
      <<<<"b", "p">>,
        <<<<"g", "a", "s", " ", "s", "t", "a", "t", "i", "o", "n">>,
          <<"f", "u", "e", "l">>,
          <<"s", "e", "r", "v", "i", "c", "e", " ", "s", "t", "a", "t", "i", "o", "n">>>>>>,
      <<<<"e", "x", "x", "o", "n">>,
        <<<<"g", "a", "s", " ", "s", "t", "a", "t", "i", "o", "n">>,
          <<"f", "u", "e", "l">>,
          <<"s", "e", "r", "v", "i", "c", "e", " ", "s", "t", "a", "t", "i", "o", "n">>>>>>,
      <<<<"m", "a", "r", "r", "i", "o", "t", "t">>,
        <<<<"h", "o", "t", "e", "l">>,
          <<"l", "o", "d", "g", "i", "n", "g">>,
          <<"a", "c", "c", "o", "m", "m", "o", "d", "a", "t", "i", "o", "n">>>>>>,
      <<<<"h", "i", "l", "t", "o", "n">>,
        <<<<"h", "o", "t", "e", "l">>,
          <<"l", "o", "d", "g", "i", "n", "g">>,
          <<"a", "c", "c", "o", "m", "m", "o", "d", "a", "t", "i", "o", "n">>>>>>,
      <<<<"h", "o", "l", "i", "d", "a", "y", " ", "i", "n", "n">>,
        <<<<"h", "o", "t", "e", "l">>,
          <<"l", "o", "d", "g", "i", "n", "g">>,
          <<"a", "c", "c", "o", "m", "m", "o", "d", "a", "t", "i", "o", "n">>>>>>,
      <<<<"b", "a", "n", "k", " ", "o", "f", " ", "a", "m", "e", "r", "i", "c", "a">>,
        <<<<"b", "a", "n", "k">>,
          <<"f", "i", "n", "a", "n", "c", "i", "a", "l", " ", "i", "n", "s", "t", "i", "t", "u", "t", "i", "o", "n">>>>>>,
      <<<<"c", "h", "a", "s", "e">>,
        <<<<"b", "a", "n", "k">>,
          <<"f", "i", "n", "a", "n", "c", "i", "a", "l", " ", "i", "n", "s", "t", "i", "t", "u", "t", "i", "o", "n">>>>>>,
      <<<<"w", "e", "l", "l", "s", " ", "f", "a", "r", "g", "o">>,
        <<<<"b", "a", "n", "k">>,
          <<"f", "i", "n", "a", "n", "c", "i", "a", "l", " ", "i", "n", "s", "t", "i", "t", "u", "t", "i", "o", "n">>>>>>,
      <<<<"s", "t", "o", "r", "e">>,
        <<<<"s", "t", "o", "r", "e">>,
          <<"r", "e", "t", "a", "i", "l">>,
          <<"s", "h", "o", "p">>>>>>,
      <<<<"r", "e", "s", "t", "a", "u", "r", "a", "n", "t">>,
        <<<<"r", "e", "s", "t", "a", "u", "r", "a", "n", "t">>,
          <<"e", "a", "t", "e", "r", "y">>,
          <<"d", "i", "n", "i", "n", "g">>>>>>,
      <<<<"h", "o", "t", "e", "l">>,
        <<<<"h", "o", "t", "e", "l">>,
          <<"m", "o", "t", "e", "l">>,
          <<"l", "o", "d", "g", "i", "n", "g">>>>>>,
      <<<<"b", "a", "n", "k">>,
        <<<<"b", "a", "n", "k">>,
          <<"f", "i", "n", "a", "n", "c", "i", "a", "l", " ", "i", "n", "s", "t", "i", "t", "u", "t", "i", "o", "n">>>>>>,
      <<<<"g", "a", "s">>,
        <<<<"g", "a", "s", " ", "s", "t", "a", "t", "i", "o", "n">>,
          <<"f", "u", "e", "l">>,
          <<"s", "e", "r", "v", "i", "c", "e", " ", "s", "t", "a", "t", "i", "o", "n">>>>>>,
      <<<<"p", "h", "a", "r", "m", "a", "c", "y">>,
        <<<<"p", "h", "a", "r", "m", "a", "c", "y">>,
          <<"d", "r", "u", "g", " ", "s", "t", "o", "r", "e">>>>>>,
      <<<<"g", "r", "o", "c", "e", "r", "y">>,
        <<<<"g", "r", "o", "c", "e", "r", "y", " ", "s", "t", "o", "r", "e">>,
          <<"s", "u", "p", "e", "r", "m", "a", "r", "k", "e", "t">>>>>>
    >>

\* the regular expressions of lines 72-84 with the key whose hints they select:
\* <<alternatives, key>>
Categories ==
    <<
      <<{<<"r", "e", "s", "t", "a", "u", "r", "a", "n", "t">>,
         <<"d", "i", "n", "e", "r">>,
         <<"c", "a", "f", "e">>,
         <<"g", "r", "i", "l", "l">>,
         <<"b", "a", "r">>,
         <<"p", "u", "b">>},
        <<"r", "e", "s", "t", "a", "u", "r", "a", "n", "t">>>>,
      <<{<<"s", "t", "o", "r", "e">>,
         <<"s", "h", "o", "p">>,
         <<"m", "a", "r", "t">>,
         <<"r", "e", "t", "a", "i", "l">>},
        <<"s", "t", "o", "r", "e">>>>,
      <<{<<"h", "o", "t", "e", "l">>,
         <<"i", "n", "n">>,
         <<"s", "u", "i", "t", "e", "s">>,
         <<"l", "o", "d", "g", "i", "n", "g">>},
        <<"h", "o", "t", "e", "l">>>>,
      <<{<<"b", "a", "n", "k">>,
         <<"c", "r", "e", "d", "i", "t", " ", "u", "n", "i", "o", "n">>,
         <<"f", "i", "n", "a", "n", "c", "i", "a", "l">>},
        <<"b", "a", "n", "k">>>>,
      <<{<<"g", "a", "s">>,
         <<"p", "e", "t", "r", "o", "l">>,
         <<"f", "u", "e", "l">>,
         <<"s", "t", "a", "t", "i", "o", "n">>},
        <<"g", "a", "s">>>>,
      <<{<<"p", "h", "a", "r", "m", "a", "c", "y">>,
         <<"d", "r", "u", "g">>,
         <<"r", "x">>},
        <<"p", "h", "a", "r", "m", "a", "c", "y">>>>,
      <<{<<"g", "r", "o", "c", "e", "r", "y">>,
         <<"f", "o", "o", "d">>,
         <<"m", "a", "r", "k", "e", "t">>},
        <<"g", "r", "o", "c", "e", "r", "y">>>>
    >>

\* variant: the last key the name includes wins
HintsOf_LastKeyWins(lowerBusinessName) ==
    LET keys == {n \in 1 .. Len(BUSINESS_TYPES) :
                    includes(lowerBusinessName, BUSINESS_TYPES[n][1])}
        cats == {n \in 1 .. Len(Categories) :
                    \E a \in Categories[n][1] : includes(lowerBusinessName, a)}
    IN IF keys # {} THEN BUSINESS_TYPES[CHOOSE n \in keys : \A m \in keys : m <= n][2]
       ELSE IF cats # {} THEN Lookup(BUSINESS_TYPES, Categories[SetMin(cats)][2])
       ELSE <<>>

\* lines 65-86 for the lower-cased name: the hints of the first key the name
\* includes, else the hints of the first category whose expression matches
HintsOf(lowerBusinessName) ==
    LET keys == {n \in 1 .. Len(BUSINESS_TYPES) :
                    includes(lowerBusinessName, BUSINESS_TYPES[n][1])}
        cats == {n \in 1 .. Len(Categories) :
                    \E a \in Categories[n][1] : includes(lowerBusinessName, a)}
    IN IF keys # {} THEN BUSINESS_TYPES[SetMin(keys)][2]
       ELSE IF cats # {} THEN Lookup(BUSINESS_TYPES, Categories[SetMin(cats)][2])
       ELSE <<>>

getBusinessTypeHints(businessName) ==
    IF businessName = <<>> THEN <<>>
    ELSE HintsOf(toLowerCase(businessName))

----------------------------------------------------------------------------
(* geocoding: enhancedGeocode *)

\* `${prefix} ${address}`
Prefixed(prefix, address) == prefix \o <<" ">> \o address

\* a value the test if (result) accepts
Truthy(r) == r # Null

\* line 47: the first call of geocodeAddress, with the address as it is
EnhancedBegin ==
    /\ epc = "call"
    /\ pc \in {"idle", "done"}
    /\ Dispatch({})
    /\ eAttempts' = Append(eAttempts, eAddress)
    /\ epc' = "plain"
    /\ UNCHANGED <<lastUsedProviderIndex, today>>
    /\ UNCHANGED <<eAddress, eBusinessName, eHintIndex, eOutcomes, eResult>>
    /\ UNCHANGED <<matchVars, normVars, batchVars, overVars, nomVars>>

\* variant: the business name is tried right after the plain address
NextAttempt_SkipsHints(hints) ==
    CASE epc = "plain" /\ eBusinessName = <<>> -> Null
      [] epc = "named" -> Null
      [] OTHER -> Prefixed(eBusinessName, eAddress)

\* the string of the attempt that follows a failed attempt (Null: none)
NextAttempt(hints) ==
    CASE epc = "plain" /\ eBusinessName = <<>> -> Null
      [] epc = "plain" /\ Len(hints) > 0 -> Prefixed(hints[1], eAddress)
      [] epc = "hints" /\ eHintIndex < Len(hints) ->
            Prefixed(hints[eHintIndex + 1], eAddress)
      [] epc = "named" -> Null
      [] OTHER -> Prefixed(eBusinessName, eAddress)

\* lines 48-63: the awaited geocodeAddress call returned null and another
\* attempt follows
EnhancedRetry ==
    /\ epc \in {"plain", "hints", "named"}
    /\ pc = "done"
    /\ ~Truthy(result)
    /\ NextAttempt(getBusinessTypeHints(eBusinessName)) # Null
    /\ eOutcomes' = Append(eOutcomes, result)
    /\ eAttempts' = Append(eAttempts, NextAttempt(getBusinessTypeHints(eBusinessName)))
    /\ \E hints \in {getBusinessTypeHints(eBusinessName)} :
          IF epc = "plain" /\ Len(hints) > 0
          THEN epc' = "hints" /\ eHintIndex' = 1
          ELSE IF epc = "hints" /\ eHintIndex < Len(hints)
          THEN epc' = "hints" /\ eHintIndex' = eHintIndex + 1
          ELSE epc' = "named" /\ eHintIndex' = eHintIndex
    /\ Dispatch({})
    /\ UNCHANGED <<lastUsedProviderIndex, today>>
    /\ UNCHANGED <<eAddress, eBusinessName, eResult>>
    /\ UNCHANGED <<matchVars, normVars, batchVars, overVars, nomVars>>

\* lines 48, 59, 66, 70 and the catch block: enhancedGeocode returns
EnhancedReturn ==
    /\ epc \in {"plain", "hints", "named"}
    /\ pc = "done"
    /\ Truthy(result) \/ NextAttempt(getBusinessTypeHints(eBusinessName)) = Null
    /\ eOutcomes' = Append(eOutcomes, result)
    /\ eResult' = IF result = Thrown THEN Null ELSE result
    /\ epc' = "done"
    /\ UNCHANGED <<eAddress, eBusinessName, eHintIndex, eAttempts>>
    /\ UNCHANGED <<geoVars, matchVars, normVars, batchVars, overVars, nomVars>>

----------------------------------------------------------------------------
(* businessTypes: batchGeocodeAddresses *)

\* the property name whose assignment sets the prototype of an object
ProtoKey == <<"_", "_", "p", "r", "o", "t", "o", "_", "_">>

\* variant: a notification is shown only when the whole list is processed
ToastsAfter_OnlyAtEnd(successes, failures) ==
    IF successes + failures = Len(bAddresses)
    THEN Append(toasts, [processed |-> successes + failures,
                         total |-> Len(bAddresses),
                         successful |-> successes])
    ELSE toasts

\* lines 116-123: the notification shown when the count of processed
\* addresses is a multiple of 10 or the length of addresses
ToastsAfter(successes, failures) ==
    IF (successes + failures) % ProgressEvery = 0
       \/ successes + failures = Len(bAddresses)
    THEN Append(toasts, [processed |-> successes + failures,
                         total |-> Len(bAddresses),
                         successful |-> successes])
    ELSE toasts

\* lines 107-123 for the awaited call of address k that returned coords
Record(k, coords) ==
    /\ IF ~Truthy(coords)
       THEN /\ failCount' = failCount + 1
            /\ toasts' = ToastsAfter(successCount, failCount + 1)
            /\ UNCHANGED <<bResults, bProto, successCount>>
       ELSE /\ successCount' = successCount + 1
            /\ toasts' = ToastsAfter(successCount + 1, failCount)
            /\ failCount' = failCount
            \* results[address] = coords
            /\ IF addressesToProcess[k] = ProtoKey
               THEN bProto' = coords /\ bResults' = bResults
               ELSE /\ bResults' = (addressesToProcess[k] :> coords) @@ bResults
                    /\ bProto' = bProto

\* lines 99-107: the call up to the first await, or up to the return when
\* the list is empty
BatchBegin ==
    /\ bpc = "call"
    /\ pc \in {"idle", "done"}
    /\ bResults' = <<>>
    /\ bProto' = Null
    /\ successCount' = 0
    /\ failCount' = 0
    /\ addressesToProcess' = bAddresses
    /\ bi' = 1
    /\ IF bAddresses = <<>>
       THEN /\ bpc' = "done"
            /\ bLog' = bLog
            /\ UNCHANGED geoVars
       ELSE /\ bpc' = "await"
            /\ bLog' = Append(bLog, <<"start", 1>>)
            /\ Dispatch({})
            /\ UNCHANGED <<lastUsedProviderIndex, today>>
    /\ UNCHANGED <<bAddresses, toasts>>
    /\ UNCHANGED <<matchVars, normVars, enhVars, overVars, nomVars>>

\* variant: the next call is started while the current one is awaited
BatchContinue_DoesNotAwait ==
    /\ bpc = "await"
    /\ pc = "await"
    /\ bi < Len(addressesToProcess)
    /\ bLog' = Append(bLog, <<"start", bi + 1>>)
    /\ bi' = bi + 1
    /\ Dispatch({})
    /\ UNCHANGED <<lastUsedProviderIndex, today>>
    /\ UNCHANGED <<bAddresses, addressesToProcess, bResults, bProto, successCount,
                   failCount, toasts, bpc>>
    /\ UNCHANGED <<matchVars, normVars, enhVars, overVars, nomVars>>

\* lines 106-124: the awaited call returned and the loop calls
\* geocodeAddress for the next address
BatchContinue ==
    /\ bpc = "await"
    /\ pc = "done"
    /\ bi < Len(addressesToProcess)
    /\ Record(bi, result)
    /\ bLog' = bLog \o <<<<"return", bi, result>>, <<"start", bi + 1>>>>
    /\ bi' = bi + 1
    /\ Dispatch({})
    /\ UNCHANGED <<lastUsedProviderIndex, today>>
    /\ UNCHANGED <<bAddresses, addressesToProcess, bpc>>
    /\ UNCHANGED <<matchVars, normVars, enhVars, overVars, nomVars>>

\* lines 106-127: the awaited call of the last address returned and
\* batchGeocodeAddresses returns results
BatchReturn ==
    /\ bpc = "await"
    /\ pc = "done"
    /\ bi = Len(addressesToProcess)
    /\ Record(bi, result)
    /\ bLog' = Append(bLog, <<"return", bi, result>>)
    /\ bpc' = "done"
    /\ UNCHANGED <<bAddresses, addressesToProcess, bi>>
    /\ UNCHANGED <<geoVars, matchVars, normVars, enhVars, overVars, nomVars>>

----------------------------------------------------------------------------
(* Inputs *)

\* the two addresses of the specification's first example
Example1 == <<"1", "2", "3", " ", "M", "a", "i", "n", " ", "S", "t", "r", "e", "e", "t", ",", " ", "S", "p", "r", "i", "n", "g", "f", "i", "e", "l", "d", ",", " ", "I", "L", " ", "6", "2", "7", "0", "1">>
Example2 == <<"1", "2", "3", " ", "M", "a", "i", "n", " ", "S", "t", ",", " ", "S", "p", "r", "i", "n", "g", "f", "i", "e", "l", "d", ",", " ", "I", "L">>

\* words the sampled addresses are built from
Vocabulary ==
    {<<"1">>,
     <<"1", "2", "3", "4", "5">>,
     <<"6", "2", "7", "0", "1">>,
     <<"M", "a", "i", "n">>,
     <<"S", "t", "r", "e", "e", "t", ",">>,
     <<"S", "t">>,
     <<"#", "4">>,
     <<"N", "o", "r", "t", "h">>,
     <<"U", "S">>,
     <<"H", "w", "y">>}

RECURSIVE Phrases(_)
\* the addresses of at most n words of the vocabulary
Phrases(n) ==
    IF n = 0 THEN {}
    ELSE Vocabulary \cup Phrases(n - 1)
         \cup {p \o <<" ">> \o w : p \in Phrases(n - 1), w \in Vocabulary}

\* addresses given to matchAddresses
AddressPool ==
    {<<"1", " ", "E", "l", "m", " ", "S", "t">>,
     <<"1", " ", "E", "l", "m", " ", "S", "t", "r", "e", "e", "t">>,
     <<"2", " ", "E", "l", "m", " ", "S", "t">>,
     <<"1", " ", "E", "l", "m">>,
     <<"1", " ", "E", "l", "m", " ", "S", "t", "r", "e", "e", "t", ",", " ", "#">>}

\* the address given to enhancedGeocode
EnhancedAddress == <<"1", " ", "E", "l", "m", " ", "S", "t">>

\* business names given to enhancedGeocode: none, a name that includes a
\* table key with three hints, one whose first key has two hints, one that
\* only a category expression matches, one that nothing matches, one that
\* includes two table keys of different hints, and one that two category
\* expressions and no table key match
BusinessNames ==
    {<<>>,
     <<"P", "e", "t", "S", "m", "a", "r", "t">>,
     <<"C", "h", "a", "s", "e", " ", "B", "a", "n", "k">>,
     <<"J", "o", "e", "'", "s", " ", "D", "i", "n", "e", "r">>,
     <<"A", "c", "m", "e">>,
     <<"T", "a", "r", "g", "e", "t", " ", "P", "h", "a", "r", "m", "a", "c", "y">>,
     <<"P", "u", "b", " ", "I", "n", "n">>}

\* addresses given to batchGeocodeAddresses
BatchPool ==
    {<<"1", " ", "E", "l", "m", " ", "S", "t">>,
     <<"2", " ", "E", "l", "m", " ", "S", "t">>,
     ProtoKey}

\* a list that is one address longer than the notification period
LongList == [k \in 1 .. ProgressEvery + 1 |-> <<"1", " ", "E", "l", "m", " ", "S", "t">>]

RECURSIVE ListsUpTo(_, _)
\* the lists of at most n elements of S
ListsUpTo(S, n) ==
    IF n = 0 THEN {<<>>}
    ELSE ListsUpTo(S, n - 1) \cup {Append(l, x) : l \in ListsUpTo(S, n - 1), x \in S}

----------------------------------------------------------------------------
(* Specification of the geocoding orchestrator *)

\* the module state of providerRegistry.ts and the adapters after load
GeoInit ==
    /\ lastUsedProviderIndex = -1
    /\ sinceLastRequest = MIN_TIME_BETWEEN_REQUESTS
    /\ requestCount = [p \in Counted |-> 0]
    /\ today \in 1 .. DaysInMonth
    /\ lastResetDay = [p \in Daily |-> today]
    /\ pc = "idle"
    /\ cur = -1
    /\ result = Null
    /\ invoked = {}

\* matchAddresses is not running
MatchOff ==
    /\ addresses1 = <<>>
    /\ addresses2 = <<>>
    /\ standardized1 = <<>>
    /\ standardized2 = <<>>
    /\ matched2 = {}
    /\ results = <<>>
    /\ sourceOf = <<>>
    /\ targetOf = <<>>
    /\ mi = 1
    /\ mpc = "off"

\* standardizeAddress is not running
NormOff ==
    /\ raw = <<>>
    /\ once = <<>>
    /\ twice = <<>>
    /\ npc = "off"

\* enhancedGeocode is not running
EnhOff ==
    /\ eAddress = <<>>
    /\ eBusinessName = <<>>
    /\ eHintIndex = 0
    /\ eAttempts = <<>>
    /\ eOutcomes = <<>>
    /\ eResult = Null
    /\ epc = "off"

\* batchGeocodeAddresses is not running
BatchOff ==
    /\ bAddresses = <<>>
    /\ addressesToProcess = <<>>
    /\ bi = 1
    /\ bResults = <<>>
    /\ bProto = Null
    /\ successCount = 0
    /\ failCount = 0
    /\ toasts = <<>>
    /\ bLog = <<>>
    /\ bpc = "off"

\* no second invocation of geocodeAddress
OverOff ==
    /\ pc2 = "off"
    /\ cur2 = -1
    /\ result2 = Null

\* geocodeAddressWithNominatim is called through the registry only
NomOff ==
    /\ apc = "off"
    /\ timeToWait = 0
    /\ timer = 0
    /\ issuedAfter = MIN_TIME_BETWEEN_REQUESTS

Init == GeoInit /\ MatchOff /\ NormOff /\ EnhOff /\ BatchOff /\ OverOff /\ NomOff

Next ==
    \/ BeginCall
    \/ ProviderSucceeds
    \/ ProviderFails
    \/ Tick
    \/ NextDay

Spec == Init /\ [][Next]_vars

\* every awaited provider call eventually settles
LiveSpec == Spec /\ WF_vars(ProviderSucceeds \/ ProviderFails)

----------------------------------------------------------------------------
(* Specification of two callers of geocodeAddress *)

\* two callers are about to invoke geocodeAddress; the calls run within one day
OverInit ==
    /\ GeoInit /\ today = 1
    /\ MatchOff /\ NormOff /\ EnhOff /\ BatchOff /\ NomOff
    /\ pc2 = "idle"
    /\ cur2 = -1
    /\ result2 = Null

OverNext ==
    \/ BeginCall
    \/ ProviderSucceeds
    \/ ProviderFails
    \/ SecondBeginCall
    \/ SecondSucceeds
    \/ SecondFails
    \/ Tick

OverSpec == OverInit /\ [][OverNext]_vars

----------------------------------------------------------------------------
(* Specification of sequential calls of the Nominatim adapter *)

\* the adapter is called by itself and through geocodeAddress, one call
\* after the other, within one day
NomInit ==
    /\ GeoInit /\ today = 1
    /\ MatchOff /\ NormOff /\ EnhOff /\ BatchOff /\ OverOff
    /\ apc = "idle"
    /\ timeToWait = 0
    /\ timer = 0
    /\ issuedAfter = MIN_TIME_BETWEEN_REQUESTS

NomNext ==
    \/ NominatimCall
    \/ NominatimWakes
    \/ NominatimSettles
    \/ SequentialBeginCall
    \/ ProviderSucceeds
    \/ ProviderFails
    \/ Tick

NomSpec == NomInit /\ [][NomNext]_vars

----------------------------------------------------------------------------
(* Specification of matchAddresses *)

\* matchAddresses(addresses1, addresses2) is called
MatchInit ==
    /\ GeoInit /\ today = 1
    /\ NormOff /\ EnhOff /\ BatchOff /\ OverOff /\ NomOff
    /\ addresses1 \in ListsUpTo(AddressPool, MaxSources)
    /\ addresses2 \in ListsUpTo(AddressPool, MaxTargets)
    /\ standardized1 = <<>>
    /\ standardized2 = <<>>
    /\ matched2 = {}
    /\ results = <<>>
    /\ sourceOf = <<>>
    /\ targetOf = <<>>
    /\ mi = 1
    /\ mpc = "start"

MatchNext ==
    \/ StartMatch
    \/ MatchSource
    \/ AddUnmatched

MatchSpec == MatchInit /\ [][MatchNext]_vars

----------------------------------------------------------------------------
(* Specification of standardizeAddress *)

\* standardizeAddress(raw) is called
NormInit ==
    /\ GeoInit /\ today = 1
    /\ MatchOff /\ EnhOff /\ BatchOff /\ OverOff /\ NomOff
    /\ raw \in {<<>>, Example1, Example2} \cup Phrases(MaxWords)
    /\ once = <<>>
    /\ twice = <<>>
    /\ npc = "raw"

NormNext ==
    \/ Standardize
    \/ StandardizeAgain

NormSpec == NormInit /\ [][NormNext]_vars

\* matchAddresses or standardizeAddress is called
AddressSpec == (MatchInit \/ NormInit) /\ [][MatchNext \/ NormNext]_vars

----------------------------------------------------------------------------
(* Specification of enhancedGeocode *)

\* enhancedGeocode(address, businessName) is called after module load; the
\* call runs within one day
EnhInit ==
    /\ GeoInit /\ today = 1
    /\ MatchOff /\ NormOff /\ BatchOff /\ OverOff /\ NomOff
    /\ eAddress = EnhancedAddress
    /\ eBusinessName \in BusinessNames
    /\ eHintIndex = 0
    /\ eAttempts = <<>>
    /\ eOutcomes = <<>>
    /\ eResult = Null
    /\ epc = "call"

EnhNext ==
    \/ EnhancedBegin
    \/ EnhancedRetry
    \/ EnhancedReturn
    \/ ProviderSucceeds
    \/ ProviderFails
    \/ Tick

EnhSpec == EnhInit /\ [][EnhNext]_vars

----------------------------------------------------------------------------
(* Specification of batchGeocodeAddresses *)

\* batchGeocodeAddresses(addresses) is called after module load; the batch
\* runs within one day
BatchInit ==
    /\ GeoInit /\ today = 1
    /\ MatchOff /\ NormOff /\ EnhOff /\ OverOff /\ NomOff
    /\ bAddresses \in ListsUpTo(BatchPool, MaxBatch) \cup {LongList}
    /\ addressesToProcess = <<>>
    /\ bi = 1
    /\ bResults = <<>>
    /\ bProto = Null
    /\ successCount = 0
    /\ failCount = 0
    /\ toasts = <<>>
    /\ bLog = <<>>
    /\ bpc = "call"

BatchNext ==
    \/ BatchBegin
    \/ BatchContinue
    \/ BatchReturn
    \/ ProviderSucceeds
    \/ ProviderFails
    \/ Tick

BatchSpec == BatchInit /\ [][BatchNext]_vars

----------------------------------------------------------------------------
(* Claims about the geocoding orchestrator *)

\* The wall clock does not move in a step of geocodeAddress: Tick raises
\* sinceLastRequest and NextDay changes today.
ClockStands == today' = today /\ sinceLastRequest' <= sinceLastRequest

\* the step is the awaited provider call settling
SettleStep == pc = "await" /\ ClockStands

\* the step is a caller invoking geocodeAddress
CallStep == pc # "await" /\ ClockStands

\* position of provider q in the cyclic visit order of the running call
PositionOf(q) == (q - startIndex + N) % N

\* C1: within one geocodeAddress call a provider's geocode function is
\* invoked at most once: an attempt that follows a failed attempt never
\* goes to a provider this call has already invoked.
C1_EachProviderAtMostOnce ==
    [][(SettleStep /\ pc' = "await") => cur' \notin invoked]_vars

\* C2: lastUsedProviderIndex is written only by the step in which the
\* awaited provider returned coordinates, and then becomes that provider's
\* index; failed attempts, quota skips and calls returning null leave it
\* unchanged.
C2_CursorWrittenOnlyOnSuccess ==
    [][lastUsedProviderIndex' # lastUsedProviderIndex =>
            /\ pc = "await"
            /\ pc' = "done"
            /\ result' # Null
            /\ lastUsedProviderIndex' = cur]_vars

\* C2 witness: a call that invoked providers returned null while the cursor
\* still holds the index of an earlier successful provider
C2_Witness ==
    /\ pc = "done"
    /\ result = Null
    /\ invoked # {}
    /\ lastUsedProviderIndex = Geoapify

\* C3: geocodeAddress terminates: a call that is awaiting a provider
\* eventually returns, given that every provider call settles.
C3_CallTerminates == (pc = "await") ~> (pc = "done")

NoProviderHasQuota == \A p \in ProviderIdx : ~checkQuota(p)

\* C9: a geocodeAddress call made while every provider reports no quota
\* returns null without invoking any geocode function and leaves the
\* cursor and every request counter unchanged.
C9_NoQuotaReturnsAbsent ==
    [][(CallStep /\ NoProviderHasQuota)
       => (/\ pc' = "done"
           /\ result' = Null
           /\ invoked' = {}
           /\ lastUsedProviderIndex' = lastUsedProviderIndex
           /\ requestCount' = requestCount)]_vars

\* C9 witness: a call returned null without any invocation while no
\* provider had quota
C9_Witness ==
    /\ pc = "done"
    /\ result = Null
    /\ invoked = {}
    /\ NoProviderHasQuota
    /\ lastUsedProviderIndex # -1

\* C10: a call that returns coordinates returns those of the first provider
\* in cyclic order from (lastUsedProviderIndex + 1) mod N that has quota and
\* succeeds: the cursor becomes that provider's index and no provider after
\* it in that order has been invoked by the call.
C10_FirstAvailableProviderWins ==
    [][(pc = "await" /\ pc' = "done" /\ result' # Null) =>
            /\ lastUsedProviderIndex' = cur
            /\ \E resp \in Responses : result' = AdapterResult(cur, resp)
            /\ \A q \in invoked : PositionOf(q) <= PositionOf(cur)]_vars

\* C15: when the date changes, the window of every daily counter has ended
\* and every daily provider reports quota again; when the date changes to
\* the first day of a month, the window of the monthly counter has ended
\* and Radar reports quota again.
C15_QuotaReturnsAfterWindow ==
    [][/\ today' # today => \A p \in Daily : checkQuota(p)'
       /\ (today' # today /\ today' = 1) => checkQuota(Radar)']_vars

\* C16: every value geocodeAddress returns other than null is a pair of
\* finite numbers.
C16_ResultIsAbsentOrFinitePair ==
    result \in {Null, Coordinates}

\* C17: in every step, the counter of the counted provider whose
\* geocodeFunction issues a request grows by exactly one from the value its
\* own reset check left, and the counter of every other counted provider,
\* refused for having reached its limit or not involved, keeps its value or
\* the value its own reset check left; no step that settles a request
\* changes a counter.
C17_CounterCountsIssuedRequests ==
    [][\A q \in Counted :
        IF ClockStands /\ pc' = "await" /\ cur' = q
        THEN requestCount'[q] = CountAfterReset(q) + 1
        ELSE requestCount'[q] \in {requestCount[q], CountAfterReset(q)}]_vars

\* a call that started at Geoapify found its counter at the limit, left it
\* there, and has issued a request to MapTiler instead
C17_Witness ==
    /\ pc = "await"
    /\ lastUsedProviderIndex = Nominatim
    /\ invoked = {MapTiler}
    /\ cur = MapTiler
    /\ lastResetDay[Geoapify] = today
    /\ requestCount[Geoapify] = Limit(Geoapify)
    /\ requestCount[MapTiler] = 1

\* the responses for which a statement of the adapter raises an exception
\* or the backend reports a failure
FailureResponses == {"network_error", "http_error", "bad_body"}

\* C18: while a provider call is awaited, no backend response makes the
\* provider's geocodeFunction reject, and a network failure, a non-success
\* status and an unparsable body make it resolve to null; whatever the step,
\* geocodeAddress does not end with an exception.
C18_NoExceptionEscapes ==
    [][pc = "await" =>
        /\ \A resp \in Responses : AdapterResult(cur, resp) # Thrown
        /\ \A resp \in FailureResponses : AdapterResult(cur, resp) = Null
        /\ result' # Thrown]_vars

\* a call whose first provider failed is awaiting a second provider
C18_Witness ==
    /\ pc = "await"
    /\ Cardinality(invoked) >= 2
    /\ \E resp \in FailureResponses : AdapterBody(cur, resp) = Thrown

\* C28: rotation spreads the load. A call of geocodeAddress that finds the
\* provider after the cursor with quota is served by that provider,
\* (lastUsedProviderIndex + 1) mod N; a call that succeeds moves the cursor to
\* the provider that served it; and the cursor stays within -1 .. N - 1. So
\* from the cursor -1, while calls succeed and providers have quota, call k
\* is served by provider (k - 1) mod N.
C28_RotationSpreadsLoad ==
    [][/\ (pc \in {"idle", "done"} /\ pc' = "await"
              /\ checkQuota((lastUsedProviderIndex + 1) % N))
          => cur' = (lastUsedProviderIndex + 1) % N
       /\ (pc = "await" /\ pc' = "done" /\ result' # Null)
          => lastUsedProviderIndex' = cur
       /\ lastUsedProviderIndex' \in -1 .. N - 1]_vars

\* every provider has served one call and the next call is served by the
\* first provider again
C28_Witness ==
    /\ pc = "await"
    /\ lastUsedProviderIndex = N - 1
    /\ cur = providers[1]
    /\ invoked = {cur}
    /\ \A p \in Counted : requestCount[p] = 1

----------------------------------------------------------------------------
(* Claims about enhancedGeocode *)

\* the strings enhancedGeocode passes to geocodeAddress when every attempt
\* fails: the address, then each hint in list order, then the business name
AttemptPlan(hints) ==
    <<eAddress>>
    \o (IF eBusinessName = <<>> THEN <<>>
        ELSE [h \in 1 .. Len(hints) |-> Prefixed(hints[h], eAddress)]
             \o <<Prefixed(eBusinessName, eAddress)>>)

AttemptsFollow(plan) ==
    /\ Len(eAttempts) <= Len(plan)
    /\ \A k \in 1 .. Len(eAttempts) : eAttempts[k] = plan[k]
    /\ \A k \in 1 .. Len(eOutcomes) : k < Len(eAttempts) => ~Truthy(eOutcomes[k])
    /\ epc = "done" =>
          /\ Len(eAttempts) >= 1
          /\ Len(eOutcomes) = Len(eAttempts)
          /\ eResult = eOutcomes[Len(eOutcomes)]
          /\ eResult = Null <=> \A k \in 1 .. Len(eOutcomes) : ~Truthy(eOutcomes[k])
          /\ eResult = Null => Len(eAttempts) = Len(plan)
          /\ eResult # Thrown

\* C11: the strings enhancedGeocode passes to geocodeAddress are, in order,
\* a prefix of: the address, hint + " " + address for each derived hint in
\* list order, businessName + " " + address (only the address when no
\* business name is given); an attempt is made only after all earlier ones
\* failed; enhancedGeocode returns what its last attempt returned, which is
\* null exactly when every attempt of the whole plan failed, and it does
\* not end with an exception.
C11_AttemptsInFixedOrder ==
    epc # "off" => AttemptsFollow(AttemptPlan(getBusinessTypeHints(eBusinessName)))

\* a call with a business name of three hints has made all five attempts
\* and returned null
C11_Witness ==
    /\ epc = "done"
    /\ Len(getBusinessTypeHints(eBusinessName)) = 3
    /\ Len(eAttempts) = 5
    /\ eResult = Null

\* the lower-cased name includes key n of BUSINESS_TYPES
KeyIn(lower, n) == includes(lower, BUSINESS_TYPES[n][1])

\* category expression c matches the lower-cased name
CategoryIn(lower, c) == \E a \in Categories[c][1] : includes(lower, a)

\* h is what first-match-wins derivation gives for the lower-cased name
FirstMatchWins(lower, h) ==
    /\ \A n \in 1 .. Len(BUSINESS_TYPES) :
          (KeyIn(lower, n) /\ \A m \in 1 .. n - 1 : ~KeyIn(lower, m))
              => h = BUSINESS_TYPES[n][2]
    /\ (\A n \in 1 .. Len(BUSINESS_TYPES) : ~KeyIn(lower, n)) =>
          /\ \A c \in 1 .. Len(Categories) :
                (CategoryIn(lower, c) /\ \A d \in 1 .. c - 1 : ~CategoryIn(lower, d))
                    => h = Lookup(BUSINESS_TYPES, Categories[c][2])
          /\ (\A c \in 1 .. Len(Categories) : ~CategoryIn(lower, c)) => h = <<>>

\* C30: getBusinessTypeHints returns the hints of the first entry of
\* BUSINESS_TYPES whose key the lower-cased business name includes; when no
\* key is included, the hints of the first category expression that matches;
\* and the empty list when nothing matches or no name is given. The hinted
\* attempts of enhancedGeocode are made with these hints.
C30_FirstMatchWins ==
    epc # "off" =>
        /\ eBusinessName = <<>> => getBusinessTypeHints(eBusinessName) = <<>>
        /\ eBusinessName # <<>> =>
              FirstMatchWins(toLowerCase(eBusinessName),
                             getBusinessTypeHints(eBusinessName))
        /\ epc = "hints" =>
              /\ eHintIndex \in 1 .. Len(getBusinessTypeHints(eBusinessName))
              /\ eAttempts[Len(eAttempts)] =
                    Prefixed(getBusinessTypeHints(eBusinessName)[eHintIndex], eAddress)

\* a name that includes the keys target and pharmacy is tried with the first
\* hint of target
C30_Witness ==
    /\ epc = "hints"
    /\ KeyIn(toLowerCase(eBusinessName), 4)
    /\ KeyIn(toLowerCase(eBusinessName), 32)
    /\ BUSINESS_TYPES[4][2] # BUSINESS_TYPES[32][2]
    /\ eHintIndex = 1
    /\ eAttempts[2] = Prefixed(BUSINESS_TYPES[4][2][1], eAddress)

----------------------------------------------------------------------------
(* Claims about batchGeocodeAddresses *)

\* the calls of the batch that have started and not returned
InFlight ==
    {k \in 1 .. Len(bAddresses) :
        /\ \E e \in 1 .. Len(bLog) : bLog[e][1] = "start" /\ bLog[e][2] = k
        /\ ~\E e \in 1 .. Len(bLog) : bLog[e][1] = "return" /\ bLog[e][2] = k}

\* C19: at most one geocodeAddress call of the batch is in flight; the
\* calls start in input order and return in input order, and the call of
\* address k + 1 starts right after the call of address k has returned: the
\* log reads start 1, return 1, start 2, return 2, ...
C19_BatchIsSequential ==
    /\ Cardinality(InFlight) <= 1
    /\ \A e \in 1 .. Len(bLog) :
          /\ bLog[e][1] = (IF e % 2 = 1 THEN "start" ELSE "return")
          /\ bLog[e][2] = (e + 1) \div 2
    /\ bpc = "await" => InFlight = {bi}
    /\ bpc = "done" => Len(bLog) = 2 * Len(bAddresses)

\* the call of the first address has returned and the call of the second
\* address is in flight
C19_Witness ==
    /\ bpc = "await"
    /\ pc = "await"
    /\ Len(bLog) = 3
    /\ InFlight = {2}

\* the input addresses for which a call of the batch returned a truthy value
SucceededAddresses ==
    {addressesToProcess[bLog[e][2]] :
        e \in {x \in 1 .. Len(bLog) : bLog[x][1] = "return" /\ Truthy(bLog[x][3])}}

\* the values the calls of the batch returned for address a
ReturnedFor(a) ==
    {bLog[e][3] :
        e \in {x \in 1 .. Len(bLog) :
                 bLog[x][1] = "return" /\ addressesToProcess[bLog[x][2]] = a}}

\* C20: when batchGeocodeAddresses has returned, the object it returns has
\* an entry under address a exactly for the input addresses a for which a
\* call of the batch succeeded, the entry is the value such a call
\* returned, and the list given to the call is unchanged.
C20_MapHoldsSucceededAddresses ==
    bpc = "done" =>
        /\ DOMAIN bResults = SucceededAddresses
        /\ \A a \in DOMAIN bResults : Truthy(bResults[a]) /\ bResults[a] \in ReturnedFor(a)
        /\ bAddresses = addressesToProcess

----------------------------------------------------------------------------
(* Claims about matchAddresses *)

\* the records that report source index i, and those that report target index j
RecordsOfSource(i) == {k \in 1 .. Len(sourceOf) : sourceOf[k] = i}
RecordsOfTarget(j) == {k \in 1 .. Len(targetOf) : targetOf[k] = j}

\* C4: when matchAddresses has returned, every index of the source list and
\* every index of the target list is reported by exactly one record; no
\* target is reported by two records.
C4_EveryIndexInExactlyOneRecord ==
    mpc = "done" =>
        /\ \A i \in 1 .. Len(addresses1) : Cardinality(RecordsOfSource(i)) = 1
        /\ \A j \in 1 .. Len(addresses2) : Cardinality(RecordsOfTarget(j)) = 1

RECURSIVE Ascending(_)
\* the elements of the set J of indices in ascending order
Ascending(J) == IF J = {} THEN <<>> ELSE <<SetMin(J)>> \o Ascending(J \ {SetMin(J)})

\* C5: matchAddresses returns Len(addresses1) source records, the i-th
\* carrying addresses1[i], followed by one record (address1 "", score 0,
\* missing) per target index never matched, in ascending target order:
\* Len(addresses1) + Len(addresses2) - |matched2| records in total.
C5_SourcesInOrderThenLeftovers ==
    mpc = "done" =>
        LET n == Len(addresses1)
            left == Ascending((1 .. Len(addresses2)) \ matched2)
        IN /\ Len(results) = n + Len(addresses2) - Cardinality(matched2)
           /\ \A i \in 1 .. n : results[i].address1 = addresses1[i] /\ sourceOf[i] = i
           /\ Len(results) = n + Len(left)
           /\ \A k \in 1 .. Len(left) :
                /\ results[n + k] = [address1 |-> <<>>, address2 |-> addresses2[left[k]],
                                     score |-> Zero, matchType |-> "missing"]
                /\ sourceOf[n + k] = 0
                /\ targetOf[n + k] = left[k]

\* a call that returned two source records, matched one of two targets and
\* left the other over
C5_Witness ==
    /\ mpc = "done"
    /\ Len(addresses1) = 2
    /\ Len(addresses2) = 2
    /\ Cardinality(matched2) = 1
    /\ Len(results) = 3

\* C6: every source record classified missing has address2 "" and score 0.
C6_MissingRecordHasZeroScore ==
    \A k \in 1 .. Len(results) :
        (sourceOf[k] # 0 /\ results[k].matchType = "missing")
            => results[k].address2 = <<>> /\ ScoreIsZero(results[k].score)

\* the targets whose standardized form equals that of source i
EqualTargets(i) == {j \in 1 .. Len(standardized2) : standardized2[j] = standardized1[i]}

\* C12: a source whose standardized form equals the standardized form of at
\* least one target gets a record classified exact with score 1.0; when
\* matchAddresses([a], [b]) has returned and the two standardized forms are
\* equal, the result is that single record.
C12_EqualNormalFormIsExact ==
    /\ \A k \in 1 .. Len(results) :
          (sourceOf[k] # 0 /\ EqualTargets(sourceOf[k]) # {})
              => /\ results[k].matchType = "exact"
                 /\ ScoreIsOne(results[k].score)
                 /\ targetOf[k] \in EqualTargets(sourceOf[k])
    /\ (mpc = "done" /\ Len(addresses1) = 1 /\ Len(addresses2) = 1
            /\ EqualTargets(1) # {})
          => results = <<[address1 |-> addresses1[1], address2 |-> addresses2[1],
                          score |-> One, matchType |-> "exact"]>>

\* a call with one source and one target that are written differently and
\* have the same standardized form has returned
C12_Witness ==
    /\ mpc = "done"
    /\ Len(addresses1) = 1
    /\ Len(addresses2) = 1
    /\ addresses1[1] # addresses2[1]
    /\ standardized1[1] = standardized2[1]
    /\ Len(results) = 1
    /\ results[1].matchType = "exact"

\* the similarities of source i to the targets not matched so far
UnmatchedScores(i) ==
    {calculateAddressSimilarity(standardized1[i], standardized2[j]) :
        j \in (1 .. Len(standardized2)) \ matched2}

\* the record rec, reporting target j, is what the claim prescribes for a
\* source whose similarities to the unmatched targets are the set S
ClassifiedByMaximum(rec, j, S) ==
    /\ rec.matchType = "fuzzy" <=> \E s \in S : ScoreAtLeastThreshold(s)
    /\ rec.matchType = "missing" <=> \A s \in S : ~ScoreAtLeastThreshold(s)
    /\ rec.matchType = "fuzzy" =>
          /\ \E s \in S : s = rec.score
          /\ \A s \in S : ~ScoreGreater(s, rec.score)
          /\ j \notin matched2
          /\ j \in matched2'

\* C13: when the loop handles a source that has no target of equal
\* standardized form, its record is fuzzy if and only if the greatest
\* similarity to the unmatched targets is at least 0.7, and missing otherwise;
\* a fuzzy record carries that greatest similarity and its target becomes matched.
C13_FuzzyIffMaximumReachesThreshold ==
    [][(mpc = "sources" /\ mi <= Len(addresses1) /\ mi' = mi + 1
            /\ EqualTargets(mi) = {})
        => ClassifiedByMaximum(results'[Len(results')], targetOf'[Len(targetOf')],
                               UnmatchedScores(mi))]_vars

\* C14: a record is classified exact only if the standardized source equals
\* the standardized target, and every record classified fuzzy pairs two
\* different standardized strings.
C14_ExactOnlyForEqualNormalForms ==
    \A k \in 1 .. Len(results) :
        /\ (sourceOf[k] # 0 /\ results[k].matchType = "exact")
              => standardized1[sourceOf[k]] = standardized2[targetOf[k]]
        /\ (sourceOf[k] # 0 /\ results[k].matchType = "fuzzy")
              => standardized1[sourceOf[k]] # standardized2[targetOf[k]]

\* C22: the record of a source that has targets of equal standardized form
\* reports the lowest index among them, whether matched before or not, with
\* that target's address: two sources of the same standardized form report
\* the same target, and a later target of that form is reported by no
\* source of that form.
C22_ExactSelectsLowestIndex ==
    \A k \in 1 .. Len(results) :
        (sourceOf[k] # 0 /\ EqualTargets(sourceOf[k]) # {})
            => /\ targetOf[k] = SetMin(EqualTargets(sourceOf[k]))
               /\ results[k].address2 = addresses2[SetMin(EqualTargets(sourceOf[k]))]
               /\ results[k].matchType = "exact"

\* two sources and two targets all of one standardized form: both source
\* records report target 1 and target 2 is left over
C22_Witness ==
    /\ mpc = "done"
    /\ Len(addresses1) = 2
    /\ Len(addresses2) = 2
    /\ standardized1[1] = standardized1[2]
    /\ standardized2[1] = standardized1[1]
    /\ standardized2[2] = standardized1[1]
    /\ targetOf = <<1, 1, 2>>
    /\ results[1].matchType = "exact"
    /\ results[2].matchType = "exact"

\* C23: the target of a record classified fuzzy is reported by no earlier
\* record, so no target is reported by two fuzzy records and no target
\* matched earlier is chosen by a later fuzzy match.
C23_FuzzyTargetsAreFresh ==
    \A k \in 1 .. Len(results) :
        (sourceOf[k] # 0 /\ results[k].matchType = "fuzzy")
            => \A e \in 1 .. k - 1 : targetOf[e] # targetOf[k]

\* two sources matched fuzzily to two targets of one standardized form: the
\* second source passed over target 1, which it resembles as much as target 2
C23_Witness ==
    /\ mpc = "done"
    /\ Len(results) = 2
    /\ results[1].matchType = "fuzzy"
    /\ results[2].matchType = "fuzzy"
    /\ targetOf = <<1, 2>>
    /\ standardized2[1] = standardized2[2]

\* the similarity of source i to target j
SimilarityTo(i, j) == calculateAddressSimilarity(standardized1[i], standardized2[j])

\* target j is the first of the unmatched targets most similar to source i
FirstOfTheBest(i, j) ==
    \A t \in (1 .. Len(standardized2)) \ matched2 :
        /\ ~ScoreGreater(SimilarityTo(i, t), SimilarityTo(i, j))
        /\ t < j => ScoreGreater(SimilarityTo(i, j), SimilarityTo(i, t))

\* C24: when the loop matches a source fuzzily, the target it reports is
\* the lowest unmatched index among those of greatest similarity.
C24_TieGoesToLowestIndex ==
    [][(mpc = "sources" /\ mi <= Len(addresses1) /\ mi' = mi + 1
            /\ results'[Len(results')].matchType = "fuzzy")
        => FirstOfTheBest(mi, targetOf'[Len(targetOf')])]_vars

\* one source matched fuzzily to target 1 while target 2, of the same
\* standardized form and so of the same similarity, is left over
C24_Witness ==
    /\ mpc = "done"
    /\ Len(addresses1) = 1
    /\ Len(addresses2) = 2
    /\ standardized2[1] = standardized2[2]
    /\ results[1].matchType = "fuzzy"
    /\ targetOf = <<1, 2>>

\* the record of a source or target address that has no counterpart
MissingRecord(a1, a2) ==
    [address1 |-> a1, address2 |-> a2, score |-> Zero, matchType |-> "missing"]

\* C21: with both lists empty matchAddresses returns the empty list; with an
\* empty target list it returns one missing record per source with address2
\* "" and score 0; with an empty source list it returns one missing record
\* per target with address1 "" and score 0; and standardizeAddress("") is "".
C21_EmptyInputs ==
    /\ (mpc = "done" /\ addresses1 = <<>> /\ addresses2 = <<>>) => results = <<>>
    /\ (mpc = "done" /\ addresses2 = <<>>) =>
          results = [i \in 1 .. Len(addresses1) |-> MissingRecord(addresses1[i], <<>>)]
    /\ (mpc = "done" /\ addresses1 = <<>>) =>
          results = [j \in 1 .. Len(addresses2) |-> MissingRecord(<<>>, addresses2[j])]
    /\ (npc \in {"once", "twice"} /\ raw = <<>>) => once = <<>>

\* a call with two sources and no target has returned
C21_Witness ==
    /\ mpc = "done"
    /\ Len(addresses1) = 2
    /\ addresses2 = <<>>
    /\ Len(results) = 2

----------------------------------------------------------------------------
(* Claims about standardizeAddress *)

\* C7: standardizeAddress is idempotent: standardizing the standardized
\* address again does not change it.
C7_StandardizeIdempotent ==
    npc = "twice" => twice = once

Example1Standardized == <<"1", "2", "3", " ", "M", "A", "I", "N", " ", "S", "T", " ", "S", "P", "R", "I", "N", "G", "F", "I", "E", "L", "D", " ", "I", "L">>

\* a word of the address suffix or direction table that has an abbreviation
\* different from itself
Abbreviable(w) ==
    \/ InTable(addressSuffixes, w) /\ Lookup(addressSuffixes, w) # w
    \/ InTable(directions, w) /\ Lookup(directions, w) # w

\* C8: the two example addresses both standardize to
\* "123 MAIN ST SPRINGFIELD IL", and a street-type or direction word of the
\* address is rewritten to its abbreviation also when punctuation is
\* attached to it: no word with an abbreviation is left in the result.
C8_ExampleAndPunctuatedSuffix ==
    npc # "raw" =>
        /\ raw \in {Example1, Example2} => once = Example1Standardized
        /\ \A k \in 1 .. Len(split(once)) : ~Abbreviable(split(once)[k])

\* the address starts with a five-digit number that further words follow
LeadingFiveDigits(s) ==
    /\ Len(s) > 6
    /\ AllDigits(s, 1, 5)
    /\ s[6] = " "

\* C25: standardizeAddress removes a ZIP code only where it is the trailing
\* element of the address: a five-digit number that leads the address and is
\* followed by further words is kept at the start of the result.
C25_LeadingNumberIsKept ==
    (npc # "raw" /\ LeadingFiveDigits(raw)) =>
        (Len(once) >= 5 /\ SubSeq(once, 1, 5) = SubSeq(raw, 1, 5))

----------------------------------------------------------------------------
(* Claims about overlapping invocations of geocodeAddress *)

\* C26: when two invocations of geocodeAddress overlap, they do not both
\* select the same provider: while both await a provider call, the two
\* calls are to different providers.
C26_OverlappingCallsSelectDistinctProviders ==
    (pc = "await" /\ pc2 = "await") => cur # cur2

----------------------------------------------------------------------------
(* Claims about the Nominatim adapter *)

\* C27: under sequential use, a request to Nominatim is issued only when at
\* least MIN_TIME_BETWEEN_REQUESTS have passed since the previous request:
\* a call that finds less time elapsed is suspended until the rest of the
\* interval has passed, and while a call is suspended checkNominatimQuota
\* is true exactly when its wait is over.
C27_RequestsAreSpacedByInterval ==
    /\ issuedAfter >= MIN_TIME_BETWEEN_REQUESTS
    /\ apc = "sleep" => (checkQuota(Nominatim) <=> timer = 0)

\* a call that had to wait has issued its request
C27_Witness ==
    /\ apc = "fetch"
    /\ timeToWait > 0
    /\ sinceLastRequest = 0
    /\ issuedAfter >= MIN_TIME_BETWEEN_REQUESTS

----------------------------------------------------------------------------
(* Claims about the progress notifications of batchGeocodeAddresses *)

\* positions of the addresses whose call has returned
Processed == {bLog[e][2] : e \in {x \in 1 .. Len(bLog) : bLog[x][1] = "return"}}

\* how many of the first p addresses were geocoded successfully
SuccessesAmong(p) ==
    Cardinality({e \in 1 .. Len(bLog) :
        bLog[e][1] = "return" /\ bLog[e][2] <= p /\ Truthy(bLog[e][3])})

\* the notifications due after the addresses processed so far
NotificationsDue ==
    LET due == Ascending({p \in Processed : p % 10 = 0 \/ p = Len(bAddresses)})
    IN [i \in 1 .. Len(due) |-> [processed |-> due[i],
                                 total |-> Len(bAddresses),
                                 successful |-> SuccessesAmong(due[i])]]

\* C29: batchGeocodeAddresses over n addresses shows a notification after
\* the p-th address exactly when p is a multiple of 10 or p = n; each
\* reports processed = p, total = n and the number of successes among the
\* first p addresses; there are ceil(n / 10) notifications when the call has
\* returned, the last with processed = n.
C29_NotificationEveryTenAndAtEnd ==
    /\ toasts = NotificationsDue
    /\ bpc = "done" =>
        /\ Len(toasts) = (Len(bAddresses) + 9) \div 10
        /\ Len(bAddresses) > 0 => toasts[Len(toasts)].processed = Len(bAddresses)

\* a list of eleven addresses, some geocoded and some not, has been
\* processed: one notification after the tenth and one after the last
C29_Witness ==
    /\ bpc = "done"
    /\ Len(bAddresses) = 11
    /\ Len(toasts) = 2
    /\ toasts[1].processed = 10
    /\ toasts[1].successful \in 1 .. 9
    /\ toasts[2].processed = 11
    /\ toasts[2].successful = toasts[1].successful + 1

====
